---- MODULE Spec2Model ----
(***************************************************************************)
(* Authentication / session lifecycle of the e-Curuza API.                 *)
(*                                                                         *)
(* Every request handler is an independent unit of work on a single-       *)
(* threaded event loop: the code between two awaits is one atomic step,    *)
(* and handlers of different requests interleave at their awaits.  A       *)
(* handler occupies a request slot of `procs`; its locals live in the      *)
(* slot record, and its answer stays there until the slot takes the next   *)
(* request.                                                                *)
(*                                                                         *)
(* Fields of the User row that no handler below branches on (firstName,    *)
(* lastName, avatarUrl, bio, lastLoginAt, googleId, audit log rows) are    *)
(* left out of the row; the awaits that write them are still steps.        *)
(***************************************************************************)
EXTENDS Integers, Sequences, FiniteSets, TLC

\* ------------------------------------------------------------------ bounds
MaxUsers == 2
MaxWallet == 1
MaxTicks == 1
MaxOtpRows == 3
\* password-reset requests for existing accounts in one run
MaxResets == 3
\* seller applications submitted in one run
MaxApplications == 2
\* shop reviews created in one run
MaxReviews == 2

\* ------------------------------------------------------------- input sets
Procs == {1, 2}
Emails == {"a@x.com", "b@x.com"}
Phones == {"+15550000001", "+15550000002"}
Passwords == {"Password1", "Password2"}
Roles == {"ADMIN", "SELLER", "CUSTOMER"}
Codes == {"100000", "123456", "999998"}

\* null of a nullable TEXT column, and of a nullable TIMESTAMP column
NULL == "null"
NoDate == -1

\* ------------------------------------------------------------- auth.utils
JWT_SECRET == "your-super-secret-jwt-key-change-in-production"
JWT_REFRESH_SECRET == "your-super-secret-refresh-key-change-in-production"
ACCESS_TOKEN_EXPIRY == 24 * 60 * 60
REFRESH_TOKEN_EXPIRY == 7 * 24 * 60 * 60

\* bcrypt.hash(password, 12): the salted digest, abstracted to a digest that
\* only the same plaintext reproduces
hashPassword(password) == "$2a$12$" \o password

\* bcrypt.compare(password, hash)
comparePassword(password, hash) == hash = hashPassword(password)

\* jwt.sign(payload, secret, {expiresIn}): the payload gains iat and exp, and
\* the signature binds the secret to exactly that payload
jwtSign(payload, secret, expiresIn, t) ==
  LET body == [userId |-> payload.userId, email |-> payload.email,
               role |-> payload.role, iat |-> t, exp |-> t + expiresIn]
  IN [payload |-> body, sig |-> [key |-> secret, over |-> body]]

\* jwt.verify(token, secret) does not throw: the signature is the one the
\* secret makes over the payload, and the clock has not reached exp
jwtVerifies(token, secret, t) ==
  /\ token.sig = [key |-> secret, over |-> token.payload]
  /\ t < token.payload.exp

generateAccessToken(payload, t) == jwtSign(payload, JWT_SECRET, ACCESS_TOKEN_EXPIRY, t)

generateRefreshTokenSameSecret(payload, t) == jwtSign(payload, JWT_SECRET, REFRESH_TOKEN_EXPIRY, t)
generateRefreshToken(payload, t) == jwtSign(payload, JWT_REFRESH_SECRET, REFRESH_TOKEN_EXPIRY, t)

\* what a verify* call yields: the decoded payload, or the 401 it throws
Decoded(payload) == [ok |-> TRUE, status |-> 200, payload |-> payload]
Thrown(status, token) == [ok |-> FALSE, status |-> status, payload |-> token.payload]

verifyAccessToken(token, t) ==
  IF jwtVerifies(token, JWT_SECRET, t) THEN Decoded(token.payload) ELSE Thrown(401, token)

verifyRefreshToken(token, t) ==
  IF jwtVerifies(token, JWT_REFRESH_SECRET, t) THEN Decoded(token.payload) ELSE Thrown(401, token)

generateTokenPair(payload, t) ==
  [accessToken |-> generateAccessToken(payload, t),
   refreshToken |-> generateRefreshToken(payload, t)]

\* ------------------------------------------------------------------ state
VARIABLES
  users,              \* table "User": the rows, in creation order (id = position)
  emailVerification,  \* table "EmailVerification" (otp.utils.ts revision)
  otpSeq,             \* ids handed out to EmailVerification rows
  now,                \* the clock, in seconds (Date.now() / 1000)
  ticks,              \* how often the clock has advanced
  procs,              \* request slots: the locals of the handler in flight
  last,               \* the answer sent by the step just taken, if it sent one
  wallet,             \* token pairs the clients hold
  mailbox,            \* verification mails handed to the mail relay, in order
  auditLog,           \* table "AuditLog": which (userId, action) have a row
  spent,              \* held refresh tokens that a refresh has accepted before
  tk,                 \* harness of the pure token functions
  revision,           \* which revision of the OTP store is deployed
  resetMails,         \* password-reset mails handed to the mail relay, in order,
                      \* each delivered or not
  sellers,            \* rows of "Seller"
  applications,       \* rows of "SellerApplication", by id
  shops,              \* rows of "Shop", by id
  shopReviews         \* rows of "ShopReview", by id; a deleted row leaves a gap

vars == <<users, emailVerification, otpSeq, now, ticks, procs, last, wallet, mailbox,
          auditLog, spent, tk, revision, resetMails, sellers, applications, shops,
          shopReviews>>

NoClaims == [userId |-> 0, email |-> "", role |-> ""]
NoToken == jwtSign(NoClaims, "", 0, 0)
NoTokens == [accessToken |-> NoToken, refreshToken |-> NoToken]

NoUser ==
  [id |-> 0, email |-> "", phone |-> "", passwordHash |-> NULL, role |-> "",
   status |-> "", emailVerified |-> FALSE,
   resetPasswordToken |-> NULL, resetPasswordExpires |-> NoDate,
   emailVerificationCode |-> NULL, emailVerificationExpires |-> NoDate]

\* prisma.user.create: the columns a handler passes, the rest at their
\* schema defaults (status ACTIVE, emailVerified false, nullable columns null)
NewUser(id, email, phone, passwordHash, role, emailVerified) ==
  [NoUser EXCEPT !.id = id, !.email = email, !.phone = phone,
                 !.passwordHash = passwordHash, !.role = role,
                 !.status = "ACTIVE", !.emailVerified = emailVerified]

NoReq ==
  [email |-> "", phone |-> "", password |-> "", role |-> "", status |-> "",
   token |-> NoToken, id |-> 0, state |-> "", cookie |-> "", code |-> "",
   resetToken |-> "", newPassword |-> "",
   userId |-> 0, reviewId |-> 0, rating |-> 0, sum |-> 0, count |-> 0]

\* a row of "EmailVerification"; also the locals code and expiresAt of the
\* OTP functions
NoOtp == [id |-> 0, email |-> "", code |-> "", expiresAt |-> NoDate]

Idle == [op |-> "", pc |-> "idle", req |-> NoReq, user |-> NoUser, otp |-> NoOtp]

NoAnswer ==
  [op |-> "", req |-> NoReq, user |-> NoUser, found |-> FALSE,
   status |-> 0, tokens |-> NoTokens, at |-> 0, authRow |-> NoUser, reused |-> FALSE,
   message |-> ""]

Ids == 1 .. Len(users)

\* prisma.user.findUnique({where: {id}}) / ({where: {email}})
findById(id) == IF id \in Ids THEN users[id] ELSE NoUser
findByEmail(email) ==
  IF \E i \in Ids : users[i].email = email
    THEN users[CHOOSE i \in Ids : users[i].email = email]
    ELSE NoUser

\* User_email_key / User_phone_key: would a row with these values, other
\* than row `self`, break a unique index?
UniqueViolation(self, email, phone) ==
  \E i \in Ids : i # self /\ (users[i].email = email \/ users[i].phone = phone)

\* a slot can take a new request
Free(p) == procs[p].pc = "idle"

\* handlers that have passed their existence check and will insert a row
PendingCreates == Cardinality({p \in Procs : procs[p].pc \in {"reg_create", "g_create"}})

\* the handler in slot p suspends at an await, its locals kept
AwaitOtp(p, op, pc, req, user, otp) ==
  /\ procs' = [procs EXCEPT ![p] =
                  [op |-> op, pc |-> pc, req |-> req, user |-> user, otp |-> otp]]
  /\ last' = NoAnswer
Await(p, op, pc, req, user) == AwaitOtp(p, op, pc, req, user, NoOtp)

\* res.status(..).json(..) / next(error): the answer, stamped with the time;
\* the slot is free again
AnswerMessage(p, op, req, user, found, authRow, status, tokens, message) ==
  /\ procs' = [procs EXCEPT ![p] = Idle]
  /\ last' = [op |-> op, req |-> req, user |-> user, found |-> found,
              status |-> status, tokens |-> tokens, at |-> now, authRow |-> authRow,
              reused |-> req.token \in spent, message |-> message]
\* ... where the message of the body is not modelled
Answer(p, op, req, user, found, authRow, status, tokens) ==
  AnswerMessage(p, op, req, user, found, authRow, status, tokens, "")

AccessHeld == {w.accessToken : w \in wallet}
RefreshHeld == {w.refreshToken : w \in wallet}

\* the client keeps a token pair it was sent, while it has room
Keep(tokens) ==
  IF tokens # NoTokens /\ Cardinality(wallet) < MaxWallet
    THEN wallet \cup {tokens} ELSE wallet

\* AuthPayload built from a User row
AuthPayloadOf(user) == [userId |-> user.id, email |-> user.email, role |-> user.role]

Init ==
  /\ users = << >>
  /\ emailVerification = {}
  /\ otpSeq = 0
  /\ now = 0
  /\ ticks = 0
  /\ procs = [p \in Procs |-> Idle]
  /\ last = NoAnswer
  /\ wallet = {}
  /\ mailbox = << >>
  /\ auditLog = {}
  /\ spent = {}
  /\ revision = "table"
  /\ resetMails = << >>
  /\ sellers = {}
  /\ applications = << >>
  /\ shops = << >>
  /\ shopReviews = << >>
  /\ tk = [claims |-> NoClaims, token |-> NoToken, kind |-> "", out |-> Thrown(0, NoToken), via |-> ""]

\* ------------------------------------------------------------ the clock
Tick(d) ==
  /\ ticks < MaxTicks
  /\ now' = now + d
  /\ ticks' = ticks + 1
  /\ last' = NoAnswer
  /\ UNCHANGED <<users, emailVerification, otpSeq, procs, wallet, mailbox, auditLog, spent, tk, revision, resetMails, sellers, applications, shops, shopReviews>>

\* a client throws a token pair away
Discard(w) ==
  /\ w \in wallet
  /\ wallet' = wallet \ {w}
  /\ spent' = spent \ {w.refreshToken}
  /\ last' = NoAnswer
  /\ UNCHANGED <<users, emailVerification, otpSeq, now, ticks, procs, mailbox, auditLog, tk, revision, resetMails, sellers, applications, shops, shopReviews>>

\* ------------------------------------------------------------- register
registerConflictEmailOnly(email, phone) == \E i \in Ids : users[i].email = email
\* findFirst({where: {OR: [{email}, {phone}]}}) finds a row
registerConflict(email, phone) ==
  \E i \in Ids : users[i].email = email \/ users[i].phone = phone

registerFind(p, email, phone, password, role) ==
  LET req == [NoReq EXCEPT !.email = email, !.phone = phone,
                           !.password = password, !.role = role]
  IN /\ Free(p)
     /\ registerConflict(email, phone) \/ Len(users) + PendingCreates < MaxUsers
     /\ IF registerConflict(email, phone)
          THEN Answer(p, "register", req, NoUser, TRUE, NoUser, 409, NoTokens)
          ELSE Await(p, "register", "reg_create", req, NoUser)
     /\ UNCHANGED <<users, emailVerification, otpSeq, now, ticks, wallet, mailbox, auditLog, spent, tk, revision, resetMails, sellers, applications, shops, shopReviews>>

\* after hashPassword: prisma.user.create; a unique-index violation is a
\* PrismaClientKnownRequestError, which the error handler answers with 500
registerCreate(p) ==
  LET s == procs[p]
      row == NewUser(Len(users) + 1, s.req.email, s.req.phone,
                     hashPassword(s.req.password),
                     IF s.req.role = "" THEN "CUSTOMER" ELSE s.req.role, FALSE)
  IN /\ s.pc = "reg_create"
     /\ IF UniqueViolation(0, s.req.email, s.req.phone)
          THEN /\ Answer(p, s.op, s.req, NoUser, FALSE, NoUser, 500, NoTokens)
               /\ users' = users
          ELSE /\ users' = Append(users, row)
               /\ Await(p, s.op, "reg_avatar", s.req, row)
     /\ UNCHANGED <<emailVerification, otpSeq, now, ticks, wallet, mailbox, auditLog, spent, tk, revision, resetMails, sellers, applications, shops, shopReviews>>

\* avatar generation and the avatarUrl update succeed or are caught; then the
\* token pair is made from the created row and the 201 is sent
registerRespond(p) ==
  LET s == procs[p]
      tokens == generateTokenPair(AuthPayloadOf(s.user), now)
  IN /\ s.pc = "reg_avatar"
     /\ Answer(p, s.op, s.req, s.user, FALSE, NoUser, 201, tokens)
     /\ wallet' = Keep(tokens)
     /\ UNCHANGED <<users, emailVerification, otpSeq, now, ticks, mailbox, auditLog, spent, tk, revision, resetMails, sellers, applications, shops, shopReviews>>

\* ---------------------------------------------------------------- login
\* the checks of login on the row it read, in the order the code makes them:
\* the status it throws, or 200
loginStatusNoActiveCheck(user, password) ==
  IF user = NoUser THEN 401
  ELSE IF user.passwordHash = NULL THEN 401
  ELSE IF ~comparePassword(password, user.passwordHash) THEN 401
  ELSE 200
loginStatusStatusFirst(user, password) ==
  IF user = NoUser THEN 401
  ELSE IF user.status # "ACTIVE" THEN 403
  ELSE IF user.passwordHash = NULL THEN 401
  ELSE IF ~comparePassword(password, user.passwordHash) THEN 401
  ELSE 200
loginStatus(user, password) ==
  IF user = NoUser THEN 401
  ELSE IF user.passwordHash = NULL THEN 401
  ELSE IF ~comparePassword(password, user.passwordHash) THEN 401
  ELSE IF user.status # "ACTIVE" THEN 403
  ELSE 200

\* findUnique({where: {email}}); no row or no password hash answers 401 at
\* once, otherwise the handler awaits comparePassword
loginFind(p, email, password) ==
  LET req == [NoReq EXCEPT !.email = email, !.password = password]
      user == findByEmail(email)
  IN /\ Free(p)
     /\ IF user = NoUser \/ user.passwordHash = NULL
          THEN Answer(p, "login", req, user, user # NoUser, NoUser,
                        loginStatus(user, password), NoTokens)
          ELSE Await(p, "login", "login_compare", req, user)
     /\ UNCHANGED <<users, emailVerification, otpSeq, now, ticks, wallet, mailbox, auditLog, spent, tk, revision, resetMails, sellers, applications, shops, shopReviews>>

\* after comparePassword: the password and status checks on the row read
\* earlier, the lastLoginAt update, and the token pair from that row
loginRespond(p) ==
  LET s == procs[p]
      st == loginStatus(s.user, s.req.password)
      tokens == IF st = 200 THEN generateTokenPair(AuthPayloadOf(s.user), now)
                ELSE NoTokens
  IN /\ s.pc = "login_compare"
     /\ Answer(p, s.op, s.req, s.user, TRUE, NoUser, st, tokens)
     /\ wallet' = Keep(tokens)
     /\ UNCHANGED <<users, emailVerification, otpSeq, now, ticks, mailbox, auditLog, spent, tk, revision, resetMails, sellers, applications, shops, shopReviews>>

\* -------------------------------------------------------------- refresh
\* a held token with its role claim rewritten: the signature no longer
\* covers the payload
Tamper(token) == [token EXCEPT !.payload.role = "ADMIN"]
refreshStatusOnlyDeleted(token, user, t) ==
  IF token = NoToken THEN 400
  ELSE IF ~verifyRefreshToken(token, t).ok THEN 401
  ELSE IF user = NoUser \/ user.status = "DELETED" THEN 401
  ELSE 200
refreshStatusRotating(token, user, t) ==
  IF token = NoToken THEN 400
  ELSE IF ~verifyRefreshToken(token, t).ok \/ token \in spent THEN 401
  ELSE IF user = NoUser \/ user.status # "ACTIVE" THEN 401
  ELSE 200
\* the status refreshToken answers with, given the row findUnique returned
refreshStatus(token, user, t) ==
  IF token = NoToken THEN 400
  ELSE IF ~verifyRefreshToken(token, t).ok THEN 401
  ELSE IF user = NoUser \/ user.status # "ACTIVE" THEN 401
  ELSE 200

refreshClaimsFromToken(token, user) ==
  [userId |-> token.payload.userId, email |-> token.payload.email, role |-> token.payload.role]
\* the AuthPayload refreshToken signs: built from the row, not from `decoded`
refreshClaims(token, user) == AuthPayloadOf(user)

\* verifyRefreshToken is synchronous; findUnique({where: {id: decoded.userId}})
\* is the only await, and the answer is computed from its result alone
refreshToken(p, token) ==
  LET req == [NoReq EXCEPT !.token = token]
      user == IF verifyRefreshToken(token, now).ok
                THEN findById(token.payload.userId) ELSE NoUser
      st == refreshStatus(token, user, now)
      tokens == IF st = 200 THEN generateTokenPair(refreshClaims(token, user), now)
                ELSE NoTokens
  IN /\ Free(p)
     /\ Answer(p, "refresh", req, user, user # NoUser, NoUser, st, tokens)
     /\ wallet' = Keep(tokens)
     /\ spent' = IF st = 200 /\ token \in RefreshHeld THEN spent \cup {token} ELSE spent
     /\ UNCHANGED <<users, emailVerification, otpSeq, now, ticks, mailbox, auditLog, tk, revision, resetMails, sellers, applications, shops, shopReviews>>

\* ------------------------------------------------------- googleCallback
\* the synchronous checks on the query and the google_oauth_state cookie (an
\* absent cookie reads as ""); past them the handler awaits the code exchange
googleCallbackCheckIgnoringState(p, code, state, cookie) ==
  LET req == [NoReq EXCEPT !.code = code, !.state = state, !.cookie = cookie]
  IN /\ Free(p)
     /\ IF code = "" \/ state = ""
          THEN AnswerMessage(p, "googleCallback", req, NoUser, FALSE, NoUser, 400,
                             NoTokens, "Authorization code and state are required")
          ELSE Await(p, "googleCallback", "g_exchange", req, NoUser)
     /\ UNCHANGED <<users, emailVerification, otpSeq, now, ticks, wallet, mailbox, auditLog, spent, tk, revision, resetMails, sellers, applications, shops, shopReviews>>
googleCallbackCheck(p, code, state, cookie) ==
  LET req == [NoReq EXCEPT !.code = code, !.state = state, !.cookie = cookie]
  IN /\ Free(p)
     /\ IF code = "" \/ state = ""
          THEN AnswerMessage(p, "googleCallback", req, NoUser, FALSE, NoUser, 400,
                             NoTokens, "Authorization code and state are required")
          ELSE IF state # cookie
            THEN AnswerMessage(p, "googleCallback", req, NoUser, FALSE, NoUser, 400,
                               NoTokens, "Invalid state parameter")
            ELSE Await(p, "googleCallback", "g_exchange", req, NoUser)
     /\ UNCHANGED <<users, emailVerification, otpSeq, now, ticks, wallet, mailbox, auditLog, spent, tk, revision, resetMails, sellers, applications, shops, shopReviews>>

\* exchangeCodeForTokens or getGoogleUserInfo throws (answered with 500), or
\* the profile arrives and findUnique({where: {email}}) reads the row: an
\* existing row is checked for ACTIVE and gets its tokens; with no row the
\* handler awaits the create
googleCallbackProfile(p, ok, email) ==
  LET s == procs[p]
      req == [s.req EXCEPT !.email = email]
      user == findByEmail(email)
      st == IF user.status # "ACTIVE" THEN 403 ELSE 302
      tokens == IF st = 302 THEN generateTokenPair(AuthPayloadOf(user), now)
                ELSE NoTokens
  IN /\ s.pc = "g_exchange"
     /\ IF ~ok
          THEN /\ Answer(p, s.op, s.req, NoUser, FALSE, NoUser, 500, NoTokens)
               /\ wallet' = wallet
          ELSE IF user = NoUser
            THEN /\ Len(users) + PendingCreates < MaxUsers
                 /\ Await(p, s.op, "g_create", req, NoUser)
                 /\ wallet' = wallet
            ELSE /\ Answer(p, s.op, req, user, TRUE, NoUser, st, tokens)
                 /\ wallet' = Keep(tokens)
     /\ UNCHANGED <<users, emailVerification, otpSeq, now, ticks, mailbox, auditLog, spent, tk, revision, resetMails, sellers, applications, shops, shopReviews>>

\* prisma.user.create with phone '' and passwordHash null; a unique-index
\* violation is answered with 500, otherwise the tokens of the new row
googleCallbackCreate(p) ==
  LET s == procs[p]
      row == NewUser(Len(users) + 1, s.req.email, "", NULL, "CUSTOMER", TRUE)
      tokens == generateTokenPair(AuthPayloadOf(row), now)
  IN /\ s.pc = "g_create"
     /\ IF UniqueViolation(0, s.req.email, "")
          THEN /\ Answer(p, s.op, s.req, NoUser, FALSE, NoUser, 500, NoTokens)
               /\ UNCHANGED <<users, wallet>>
          ELSE /\ users' = Append(users, row)
               /\ Answer(p, s.op, s.req, row, FALSE, NoUser, 302, tokens)
               /\ wallet' = Keep(tokens)
     /\ UNCHANGED <<emailVerification, otpSeq, now, ticks, mailbox, auditLog, spent, tk, revision, resetMails, sellers, applications, shops, shopReviews>>

\* ------------------------------------------------ authenticate / authorize
authStatusCheckingAccount(token, allowedRoles, t) ==
  IF ~verifyAccessToken(token, t).ok THEN 401
  ELSE IF token.payload.role \notin allowedRoles THEN 403
  ELSE IF findById(token.payload.userId).status # "ACTIVE" THEN 401
  ELSE 200
\* authenticate, then authorize(...allowedRoles): the status next(error) is
\* answered with, or 200 when both call next()
authStatus(token, allowedRoles, t) ==
  IF ~verifyAccessToken(token, t).ok THEN 401
  ELSE IF token.payload.role \notin allowedRoles THEN 403
  ELSE 200

\* adminOnly = authorize('ADMIN'); routes with authenticate alone admit any role
adminOnly == {"ADMIN"}
anyRole == Roles

\* the row of the account a presented token names, as stored when the
\* middleware ran (the middleware does not read it: kept for observation)
RowOf(token) == findById(token.payload.userId)

\* --------------------------------------------------- logout (no await)
logout(p, token) ==
  LET req == [NoReq EXCEPT !.token = token]
  IN /\ Free(p)
     /\ Answer(p, "logout", req, NoUser, FALSE, RowOf(token),
                   authStatus(token, anyRole, now), NoTokens)
     /\ UNCHANGED <<users, emailVerification, otpSeq, now, ticks, wallet, mailbox, auditLog, spent, tk, revision, resetMails, sellers, applications, shops, shopReviews>>

\* ------------------------------------- admin routes of user.controller
\* the middlewares, then findUnique({where: {id}}) and the handler's check on
\* the row: the status thrown, or 0 when the handler goes on to its update
adminFindStatus(op, token, user, t) ==
  IF authStatus(token, adminOnly, t) # 200 THEN authStatus(token, adminOnly, t)
  ELSE IF user = NoUser THEN 404
  ELSE IF op = "suspendUser" /\ user.status = "SUSPENDED" THEN 400
  ELSE IF op = "activateUser" /\ user.status = "ACTIVE" THEN 400
  ELSE 0

adminFind(p, op, pc, req) ==
  LET user == IF authStatus(req.token, adminOnly, now) = 200
                THEN findById(req.id) ELSE NoUser
      st == adminFindStatus(op, req.token, user, now)
  IN /\ Free(p)
     /\ IF st # 0
          THEN Answer(p, op, req, user, user # NoUser, RowOf(req.token), st, NoTokens)
          ELSE Await(p, op, pc, req, NoUser)
     /\ UNCHANGED <<users, emailVerification, otpSeq, now, ticks, wallet, mailbox, auditLog, spent, tk, revision, resetMails, sellers, applications, shops, shopReviews>>

\* prisma.user.update({where: {id}, data}) of a row that exists; then the
\* 200, or first the await of the audit log row when the handler writes one
adminUpdate(p, pc, row, auditPc) ==
  LET s == procs[p]
  IN /\ s.pc = pc
     /\ users' = [users EXCEPT ![s.req.id] = row]
     /\ IF auditPc = ""
          THEN Answer(p, s.op, s.req, s.user, TRUE, NoUser, 200, NoTokens)
          ELSE Await(p, s.op, auditPc, s.req, s.user)
     /\ UNCHANGED <<emailVerification, otpSeq, now, ticks, wallet, mailbox, auditLog, spent, tk, revision, resetMails, sellers, applications, shops, shopReviews>>

\* prisma.auditLog.create({data: {userId: id, action}}), then the 200
adminAudit(p, pc, action) ==
  LET s == procs[p]
  IN /\ s.pc = pc
     /\ auditLog' = auditLog \cup {[userId |-> s.req.id, action |-> action]}
     /\ Answer(p, s.op, s.req, s.user, TRUE, NoUser, 200, NoTokens)
     /\ UNCHANGED <<users, emailVerification, otpSeq, now, ticks, wallet, mailbox, spent, tk, revision, resetMails, sellers, applications, shops, shopReviews>>

suspendUserFind(p, token, id) ==
  adminFind(p, "suspendUser", "suspend_update", [NoReq EXCEPT !.token = token, !.id = id])
suspendUserUpdate(p) ==
  adminUpdate(p, "suspend_update", [users[procs[p].req.id] EXCEPT !.status = "SUSPENDED"],
              "suspend_audit")
suspendUserAudit(p) == adminAudit(p, "suspend_audit", "USER_SUSPENDED")

activateUserFind(p, token, id) ==
  adminFind(p, "activateUser", "activate_update", [NoReq EXCEPT !.token = token, !.id = id])
activateUserUpdate(p) ==
  adminUpdate(p, "activate_update", [users[procs[p].req.id] EXCEPT !.status = "ACTIVE"],
              "activate_audit")
activateUserAudit(p) == adminAudit(p, "activate_audit", "USER_ACTIVATED")

deleteUserFind(p, token, id) ==
  adminFind(p, "deleteUser", "delete_update", [NoReq EXCEPT !.token = token, !.id = id])
deleteUserUpdate(p) ==
  adminUpdate(p, "delete_update", [users[procs[p].req.id] EXCEPT !.status = "DELETED"], "")

\* updateUser: role and status are written when the body gives them ("" is
\* an absent field)
updateUserFind(p, token, id, role, status) ==
  adminFind(p, "updateUser", "update_update",
            [NoReq EXCEPT !.token = token, !.id = id, !.role = role, !.status = status])
updateUserUpdate(p) ==
  LET s == procs[p]
      old == users[s.req.id]
  IN adminUpdate(p, "update_update",
       [old EXCEPT !.role = IF s.req.role = "" THEN old.role ELSE s.req.role,
                   !.status = IF s.req.status = "" THEN old.status ELSE s.req.status], "")

\* ------------------------------------------------------ deleteMyAccount
\* authenticate, then findUnique({where: {id: userId}, select: {email}})
deleteMyAccountFind(p, token) ==
  LET req == [NoReq EXCEPT !.token = token]
      auth == authStatus(token, anyRole, now)
      user == IF auth = 200 THEN findById(token.payload.userId) ELSE NoUser
  IN /\ Free(p)
     /\ IF auth # 200 \/ user = NoUser
          THEN Answer(p, "deleteMyAccount", req, user, FALSE, RowOf(token),
                        IF auth # 200 THEN auth ELSE 404, NoTokens)
          ELSE Await(p, "deleteMyAccount", "delme_audit", req, user)
     /\ UNCHANGED <<users, emailVerification, otpSeq, now, ticks, wallet, mailbox, auditLog, spent, tk, revision, resetMails, sellers, applications, shops, shopReviews>>

\* `deleted_${Date.now()}_${dbUser.email}` and `deleted_${Date.now()}`, with
\* Date.now() in milliseconds
deletedEmail(email, t) == "deleted_" \o ToString(t * 1000) \o "_" \o email
deletedPhone(t) == "deleted_" \o ToString(t * 1000)

\* prisma.auditLog.create({data: {userId, action: 'ACCOUNT_DELETED'}})
deleteMyAccountAudit(p) ==
  LET s == procs[p]
  IN /\ s.pc = "delme_audit"
     /\ auditLog' = auditLog \cup {[userId |-> s.user.id, action |-> "ACCOUNT_DELETED"]}
     /\ Await(p, s.op, "delme_update", s.req, s.user)
     /\ UNCHANGED <<users, emailVerification, otpSeq, now, ticks, wallet, mailbox, spent, tk, revision, resetMails, sellers, applications, shops, shopReviews>>

\* the update that marks the row DELETED and renames its email (from the
\* email read earlier) and phone
deleteMyAccountUpdate(p) ==
  LET s == procs[p]
      id == s.user.id
      email == deletedEmail(s.user.email, now)
      phone == deletedPhone(now)
  IN /\ s.pc = "delme_update"
     /\ IF UniqueViolation(id, email, phone)
          THEN /\ users' = users
               /\ Answer(p, s.op, s.req, s.user, TRUE, NoUser, 500, NoTokens)
          ELSE /\ users' = [users EXCEPT ![id] =
                      [@ EXCEPT !.status = "DELETED", !.email = email, !.phone = phone]]
               /\ Answer(p, s.op, s.req, s.user, TRUE, NoUser, 200, NoTokens)
     /\ UNCHANGED <<emailVerification, otpSeq, now, ticks, wallet, mailbox, auditLog, spent, tk, revision, resetMails, sellers, applications, shops, shopReviews>>

\* ------------------------------------------------------ updateMyProfile
\* authenticate, then prisma.user.update({where: {id: userId}, data}) with
\* the phone the body gives; a unique-index violation or a missing row is a
\* Prisma error, answered with 500
updateMyProfile(p, token, phone) ==
  LET req == [NoReq EXCEPT !.token = token, !.phone = phone]
      auth == authStatus(token, anyRole, now)
      id == token.payload.userId
      broken == id \notin Ids \/ UniqueViolation(id, "", phone)
  IN /\ Free(p)
     /\ IF auth # 200
          THEN /\ Answer(p, "updateMyProfile", req, NoUser, FALSE, RowOf(token), auth, NoTokens)
               /\ users' = users
          ELSE IF broken
            THEN /\ Answer(p, "updateMyProfile", req, NoUser, FALSE, RowOf(token), 500, NoTokens)
                 /\ users' = users
            ELSE /\ users' = [users EXCEPT ![id].phone = phone]
                 /\ Answer(p, "updateMyProfile", req, users'[id], TRUE, RowOf(token), 200, NoTokens)
     /\ UNCHANGED <<emailVerification, otpSeq, now, ticks, wallet, mailbox, auditLog, spent, tk, revision, resetMails, sellers, applications, shops, shopReviews>>

\* ------------------------------------------------------------ otp.utils
\* otpConfig.expiryMinutes of the two revisions, in seconds
TableExpiry == 2 * 60
FieldsExpiry == 10 * 60

\* String.prototype.trim on the codes a client sends: a code padded with
\* blanks loses them, any other string is unchanged
Padded(code) == " " \o code \o " "
Trim(s) ==
  IF \E c \in Codes : s = Padded(c) THEN CHOOSE c \in Codes : s = Padded(c) ELSE s

\* requests that are inside createOrUpdateOTP or about to send its code
OtpInFlight ==
  Cardinality({p \in Procs :
    procs[p].pc \in {"resend_otp", "otp_create", "otpf_update", "resend_mail"}})

\* ------------------------------------------------ resendVerificationCode
\* findUnique({where: {email}}); unknown and verified accounts are answered
\* at once
resendVerificationCodeFindAnyAccount(p, email) ==
  LET req == [NoReq EXCEPT !.email = email]
      user == findByEmail(email)
  IN /\ Free(p)
     /\ IF email = ""
          THEN Answer(p, "resendVerificationCode", req, NoUser, FALSE, NoUser, 400, NoTokens)
          ELSE IF user = NoUser
            THEN Answer(p, "resendVerificationCode", req, user, FALSE, NoUser, 200, NoTokens)
            ELSE /\ Len(mailbox) + OtpInFlight < MaxOtpRows
                 /\ Await(p, "resendVerificationCode", "resend_otp", req, user)
     /\ UNCHANGED <<users, emailVerification, otpSeq, now, ticks, wallet, mailbox, auditLog, spent, tk, revision, resetMails, sellers, applications, shops, shopReviews>>
resendVerificationCodeFind(p, email) ==
  LET req == [NoReq EXCEPT !.email = email]
      user == findByEmail(email)
  IN /\ Free(p)
     /\ IF email = ""
          THEN Answer(p, "resendVerificationCode", req, NoUser, FALSE, NoUser, 400, NoTokens)
          ELSE IF user = NoUser \/ user.emailVerified
            THEN Answer(p, "resendVerificationCode", req, user, FALSE, NoUser, 200, NoTokens)
            ELSE /\ Len(mailbox) + OtpInFlight < MaxOtpRows
                 /\ Await(p, "resendVerificationCode", "resend_otp", req, user)
     /\ UNCHANGED <<users, emailVerification, otpSeq, now, ticks, wallet, mailbox, auditLog, spent, tk, revision, resetMails, sellers, applications, shops, shopReviews>>

\* createOrUpdateOTP, otp.utils.ts: generateOTP, getOTPExpiry, then
\* emailVerification.deleteMany({where: {email}})
createOrUpdateOTPDeleteManyKeeping(p, code) ==
  LET s == procs[p]
  IN /\ revision = "table"
     /\ s.pc = "resend_otp"
     /\ emailVerification' = emailVerification
     /\ AwaitOtp(p, s.op, "otp_create", s.req, s.user,
                 [id |-> 0, email |-> s.req.email, code |-> code,
                  expiresAt |-> now + TableExpiry])
     /\ UNCHANGED <<users, otpSeq, now, ticks, wallet, mailbox, auditLog, spent, tk, revision, resetMails, sellers, applications, shops, shopReviews>>
createOrUpdateOTPDeleteMany(p, code) ==
  LET s == procs[p]
  IN /\ revision = "table"
     /\ s.pc = "resend_otp"
     /\ emailVerification' = {r \in emailVerification : r.email # s.req.email}
     /\ AwaitOtp(p, s.op, "otp_create", s.req, s.user,
                 [id |-> 0, email |-> s.req.email, code |-> code,
                  expiresAt |-> now + TableExpiry])
     /\ UNCHANGED <<users, otpSeq, now, ticks, wallet, mailbox, auditLog, spent, tk, revision, resetMails, sellers, applications, shops, shopReviews>>

\* ... then emailVerification.create({data: {email, code, expiresAt}})
createOrUpdateOTPCreate(p) ==
  LET s == procs[p]
  IN /\ s.pc = "otp_create"
     /\ otpSeq' = otpSeq + 1
     /\ emailVerification' = emailVerification \cup {[s.otp EXCEPT !.id = otpSeq + 1]}
     /\ AwaitOtp(p, s.op, "resend_mail", s.req, s.user, s.otp)
     /\ UNCHANGED <<users, now, ticks, wallet, mailbox, auditLog, spent, tk, revision, resetMails, sellers, applications, shops, shopReviews>>

\* createOrUpdateOTP, avatar.generate.ts: generateOTP, getOTPExpiry, then
\* user.findUnique({where: {email}}); throws when there is no such user
createOrUpdateOTPFind(p, code) ==
  LET s == procs[p]
      user == findByEmail(s.req.email)
  IN /\ revision = "fields"
     /\ s.pc = "resend_otp"
     /\ IF user = NoUser
          THEN Answer(p, s.op, s.req, s.user, FALSE, NoUser, 500, NoTokens)
          ELSE AwaitOtp(p, s.op, "otpf_update", s.req, s.user,
                        [id |-> user.id, email |-> s.req.email, code |-> code,
                         expiresAt |-> now + FieldsExpiry])
     /\ UNCHANGED <<users, emailVerification, otpSeq, now, ticks, wallet, mailbox, auditLog, spent, tk, revision, resetMails, sellers, applications, shops, shopReviews>>

\* ... then user.update({where: {id}, data: {emailVerificationCode,
\* emailVerificationExpires}})
createOrUpdateOTPUpdate(p) ==
  LET s == procs[p]
  IN /\ s.pc = "otpf_update"
     /\ users' = [users EXCEPT ![s.otp.id] =
                    [@ EXCEPT !.emailVerificationCode = s.otp.code,
                              !.emailVerificationExpires = s.otp.expiresAt]]
     /\ AwaitOtp(p, s.op, "resend_mail", s.req, s.user, s.otp)
     /\ UNCHANGED <<emailVerification, otpSeq, now, ticks, wallet, mailbox, auditLog, spent, tk, revision, resetMails, sellers, applications, shops, shopReviews>>

\* sendVerificationEmail(email, otp.code), whose failure is swallowed, and
\* the 200
resendVerificationCodeMail(p) ==
  LET s == procs[p]
  IN /\ s.pc = "resend_mail"
     /\ mailbox' = Append(mailbox, [email |-> s.req.email, code |-> s.otp.code])
     /\ Answer(p, s.op, s.req, s.user, TRUE, NoUser, 200, NoTokens)
     /\ UNCHANGED <<users, emailVerification, otpSeq, now, ticks, wallet, auditLog, spent, tk, revision, resetMails, sellers, applications, shops, shopReviews>>

\* ------------------------------------------------------------ verifyEmail
\* In the answers of verifyEmail, `found` is what verifyOTP returned.
\* verifyOTP, otp.utils.ts: emailVerification.findFirst({where: {email,
\* code}}), which may return any matching row
verifyOTPFindFirst(p, email, code) ==
  LET req == [NoReq EXCEPT !.email = email, !.code = code]
      matches == {r \in emailVerification : r.email = email /\ r.code = code}
  IN /\ revision = "table"
     /\ Free(p)
     /\ IF email = "" \/ code = "" \/ matches = {}
          THEN Answer(p, "verifyEmail", req, NoUser, FALSE, NoUser, 400, NoTokens)
          ELSE \E v \in matches :
                 AwaitOtp(p, "verifyEmail",
                          IF now > v.expiresAt THEN "votp_expired" ELSE "votp_delete",
                          req, NoUser, v)
     /\ UNCHANGED <<users, emailVerification, otpSeq, now, ticks, wallet, mailbox, auditLog, spent, tk, revision, resetMails, sellers, applications, shops, shopReviews>>

\* emailVerification.delete({where: {id}}) of the expired row, then false;
\* deleting a row that is gone is a Prisma error
verifyOTPDeleteExpired(p) ==
  LET s == procs[p]
  IN /\ s.pc = "votp_expired"
     /\ emailVerification' = emailVerification \ {s.otp}
     /\ Answer(p, s.op, s.req, s.user, FALSE, NoUser,
               IF s.otp \in emailVerification THEN 400 ELSE 500, NoTokens)
     /\ UNCHANGED <<users, otpSeq, now, ticks, wallet, mailbox, auditLog, spent, tk, revision, resetMails, sellers, applications, shops, shopReviews>>

\* emailVerification.delete({where: {id}}) of the matching row, then true
verifyOTPDelete(p) ==
  LET s == procs[p]
  IN /\ s.pc = "votp_delete"
     /\ emailVerification' = emailVerification \ {s.otp}
     /\ IF s.otp \in emailVerification
          THEN AwaitOtp(p, s.op, "ve_find", s.req, s.user, s.otp)
          ELSE Answer(p, s.op, s.req, s.user, FALSE, NoUser, 500, NoTokens)
     /\ UNCHANGED <<users, otpSeq, now, ticks, wallet, mailbox, auditLog, spent, tk, revision, resetMails, sellers, applications, shops, shopReviews>>

\* verifyOTP, avatar.generate.ts: the status it makes verifyEmail answer
\* with, 0 when it goes on (to clear an expired code, or returning true)
verifyOTPFieldsAcceptingAny(user, code) ==
  IF user = NoUser THEN 400
  ELSE IF user.emailVerificationCode = NULL \/ user.emailVerificationExpires = NoDate THEN 400
  ELSE 0
verifyOTPFields(user, code) ==
  IF user = NoUser THEN 400
  ELSE IF user.emailVerificationCode = NULL \/ user.emailVerificationExpires = NoDate THEN 400
  ELSE IF Trim(code) # Trim(user.emailVerificationCode) THEN 400
  ELSE 0

verifyOTPFindUniqueConsuming(p, email, code) ==
  LET req == [NoReq EXCEPT !.email = email, !.code = code]
      user == findByEmail(email)
      st == IF email = "" \/ code = "" THEN 400 ELSE verifyOTPFields(user, code)
  IN /\ revision = "fields"
     /\ Free(p)
     /\ IF st # 0
          THEN /\ Answer(p, "verifyEmail", req, NoUser, FALSE, NoUser, st, NoTokens)
               /\ users' = users
          ELSE IF now > user.emailVerificationExpires
            THEN /\ AwaitOtp(p, "verifyEmail", "votpf_clear", req, NoUser,
                             [NoOtp EXCEPT !.id = user.id])
                 /\ users' = users
            ELSE /\ Await(p, "verifyEmail", "ve_find", req, NoUser)
                 /\ users' = [users EXCEPT ![user.id] =
                                [@ EXCEPT !.emailVerificationCode = NULL,
                                          !.emailVerificationExpires = NoDate]]
     /\ UNCHANGED <<emailVerification, otpSeq, now, ticks, wallet, mailbox, auditLog, spent, tk, revision, resetMails, sellers, applications, shops, shopReviews>>
\* user.findUnique({where: {email}}) and the comparisons
verifyOTPFindUnique(p, email, code) ==
  LET req == [NoReq EXCEPT !.email = email, !.code = code]
      user == findByEmail(email)
      st == IF email = "" \/ code = "" THEN 400 ELSE verifyOTPFields(user, code)
  IN /\ revision = "fields"
     /\ Free(p)
     /\ IF st # 0
          THEN Answer(p, "verifyEmail", req, NoUser, FALSE, NoUser, st, NoTokens)
          ELSE IF now > user.emailVerificationExpires
            THEN AwaitOtp(p, "verifyEmail", "votpf_clear", req, NoUser,
                          [NoOtp EXCEPT !.id = user.id])
            ELSE Await(p, "verifyEmail", "ve_find", req, NoUser)
     /\ UNCHANGED <<users, emailVerification, otpSeq, now, ticks, wallet, mailbox, auditLog, spent, tk, revision, resetMails, sellers, applications, shops, shopReviews>>

\* user.update clearing the expired code, then false
verifyOTPClear(p) ==
  LET s == procs[p]
  IN /\ s.pc = "votpf_clear"
     /\ users' = [users EXCEPT ![s.otp.id] =
                    [@ EXCEPT !.emailVerificationCode = NULL,
                              !.emailVerificationExpires = NoDate]]
     /\ Answer(p, s.op, s.req, s.user, FALSE, NoUser, 400, NoTokens)
     /\ UNCHANGED <<emailVerification, otpSeq, now, ticks, wallet, mailbox, auditLog, spent, tk, revision, resetMails, sellers, applications, shops, shopReviews>>

\* verifyOTP returned true: user.findUnique({where: {email}})
verifyEmailFind(p) ==
  LET s == procs[p]
      user == findByEmail(s.req.email)
  IN /\ s.pc = "ve_find"
     /\ IF user = NoUser
          THEN Answer(p, s.op, s.req, user, TRUE, NoUser, 404, NoTokens)
          ELSE Await(p, s.op, "ve_update", s.req, user)
     /\ UNCHANGED <<users, emailVerification, otpSeq, now, ticks, wallet, mailbox, auditLog, spent, tk, revision, resetMails, sellers, applications, shops, shopReviews>>

\* user.update({where: {id}, data: {emailVerified: true}})
verifyEmailUpdate(p) ==
  LET s == procs[p]
  IN /\ s.pc = "ve_update"
     /\ users' = [users EXCEPT ![s.user.id].emailVerified = TRUE]
     /\ Await(p, s.op, "ve_delete", s.req, s.user)
     /\ UNCHANGED <<emailVerification, otpSeq, now, ticks, wallet, mailbox, auditLog, spent, tk, revision, resetMails, sellers, applications, shops, shopReviews>>

\* deleteOTP, otp.utils.ts: emailVerification.deleteMany({where: {email}}),
\* then the 200
deleteOTPDeleteMany(p) ==
  LET s == procs[p]
  IN /\ revision = "table"
     /\ s.pc = "ve_delete"
     /\ emailVerification' = {r \in emailVerification : r.email # s.req.email}
     /\ Answer(p, s.op, s.req, s.user, TRUE, NoUser, 200, NoTokens)
     /\ UNCHANGED <<users, otpSeq, now, ticks, wallet, mailbox, auditLog, spent, tk, revision, resetMails, sellers, applications, shops, shopReviews>>

\* deleteOTP, avatar.generate.ts: user.findUnique({where: {email}}) ...
deleteOTPFind(p) ==
  LET s == procs[p]
      user == findByEmail(s.req.email)
  IN /\ revision = "fields"
     /\ s.pc = "ve_delete"
     /\ IF user = NoUser
          THEN Answer(p, s.op, s.req, s.user, TRUE, NoUser, 200, NoTokens)
          ELSE Await(p, s.op, "ve_clear", s.req, user)
     /\ UNCHANGED <<users, emailVerification, otpSeq, now, ticks, wallet, mailbox, auditLog, spent, tk, revision, resetMails, sellers, applications, shops, shopReviews>>

deleteOTPUpdateKeeping(p) ==
  LET s == procs[p]
  IN /\ s.pc = "ve_clear"
     /\ users' = users
     /\ Answer(p, s.op, s.req, s.user, TRUE, NoUser, 200, NoTokens)
     /\ UNCHANGED <<emailVerification, otpSeq, now, ticks, wallet, mailbox, auditLog, spent, tk, revision, resetMails, sellers, applications, shops, shopReviews>>
\* ... and user.update clearing the code, then the 200
deleteOTPUpdate(p) ==
  LET s == procs[p]
  IN /\ s.pc = "ve_clear"
     /\ users' = [users EXCEPT ![s.user.id] =
                    [@ EXCEPT !.emailVerificationCode = NULL,
                              !.emailVerificationExpires = NoDate]]
     /\ Answer(p, s.op, s.req, s.user, TRUE, NoUser, 200, NoTokens)
     /\ UNCHANGED <<emailVerification, otpSeq, now, ticks, wallet, mailbox, auditLog, spent, tk, revision, resetMails, sellers, applications, shops, shopReviews>>

\* -------------------------------------------------------------- Session
\* Sessions: an administrator exists (registered at time 0 with role ADMIN,
\* holding the access token of that registration); accounts are registered
\* or provisioned, log in and refresh while the administrator changes their
\* status and role, all interleaved.
AdminRow == NewUser(1, "a@x.com", "+15550000001", hashPassword("Password1"), "ADMIN", FALSE)
AdminToken == generateAccessToken(AuthPayloadOf(AdminRow), 0)

InitSession ==
  /\ users = <<AdminRow>>
  /\ emailVerification = {}
  /\ otpSeq = 0
  /\ now = 0
  /\ ticks = 0
  /\ procs = [p \in Procs |-> Idle]
  /\ last = NoAnswer
  /\ wallet = {}
  /\ mailbox = << >>
  /\ auditLog = {}
  /\ spent = {}
  /\ revision = "table"
  /\ resetMails = << >>
  /\ sellers = {}
  /\ applications = << >>
  /\ shops = << >>
  /\ shopReviews = << >>
  /\ tk = [claims |-> NoClaims, token |-> NoToken, kind |-> "", out |-> Thrown(0, NoToken), via |-> ""]

TokenTicks == {ACCESS_TOKEN_EXPIRY}
SessionRegistrations ==
  {[email |-> "a@x.com", phone |-> "+15550000002", role |-> ""],
   [email |-> "b@x.com", phone |-> "+15550000002", role |-> ""]}
UpdateRoles == {"SELLER"}
UpdateStatuses == {""}
AdminTokens == AccessHeld \cup {AdminToken}
\* the slot that carries the clients' requests, and the administrator's
\* the accounts the administrator acts on
TargetIds == 2 .. MaxUsers
\* deleteMyAccount renames the email on every call: it is called for accounts
\* whose email was not renamed yet, which bounds the length of the emails
LiveAccess == {t \in AccessHeld : RowOf(t).email \in Emails}

ClientSlots == {1}
AdminSlots == {2}

NextSession ==
  \/ \E d \in TokenTicks : Tick(d)
  \/ \E w \in wallet : Discard(w)
  \/ \E p \in ClientSlots :
       \/ \E r \in SessionRegistrations : registerFind(p, r.email, r.phone, "Password1", r.role)
       \/ registerCreate(p)
       \/ registerRespond(p)
       \/ \E e \in Emails, pw \in Passwords : loginFind(p, e, pw)
       \/ loginRespond(p)
       \/ \E t \in RefreshHeld \cup AccessHeld \cup {NoToken} : refreshToken(p, t)
       \/ googleCallbackCheck(p, "code", "s1", "s1")
       \/ \E ok \in BOOLEAN, e \in Emails : googleCallbackProfile(p, ok, e)
       \/ googleCallbackCreate(p)
  \/ \E p \in AdminSlots :
       \/ \E t \in AdminTokens, id \in TargetIds : suspendUserFind(p, t, id)
       \/ suspendUserUpdate(p)
       \/ suspendUserAudit(p)
       \/ \E t \in AdminTokens, id \in TargetIds : activateUserFind(p, t, id)
       \/ activateUserUpdate(p)
       \/ activateUserAudit(p)
       \/ \E t \in AdminTokens, id \in TargetIds : deleteUserFind(p, t, id)
       \/ deleteUserUpdate(p)
       \/ \E t \in AdminTokens, id \in TargetIds, r \in UpdateRoles, st \in UpdateStatuses :
            updateUserFind(p, t, id, r, st)
       \/ updateUserUpdate(p)

SpecSession == InitSession /\ [][NextSession]_vars

\* ------------------------------------------------------------- Register
\* Registration: from the empty store, clients register, are provisioned by
\* googleCallback, change their phone and delete their own account, with
\* two requests in flight at a time.
RegisterRoles == {""}
RegisterPasswords == {"Password1"}
ProfileEmails == {"a@x.com"}

NextRegister ==
  \/ \E w \in wallet : Discard(w)
  \/ \E p \in Procs :
       \/ \E e \in Emails, ph \in Phones, pw \in RegisterPasswords, r \in RegisterRoles :
            registerFind(p, e, ph, pw, r)
       \/ registerCreate(p)
       \/ registerRespond(p)
  \/ \E p \in ClientSlots :
       \/ googleCallbackCheck(p, "code", "s1", "s1")
       \/ \E ok \in BOOLEAN, e \in ProfileEmails : googleCallbackProfile(p, ok, e)
       \/ googleCallbackCreate(p)
       \/ \E t \in LiveAccess, ph \in Phones : updateMyProfile(p, t, ph)
       \/ \E t \in LiveAccess : deleteMyAccountFind(p, t)
       \/ deleteMyAccountAudit(p)
       \/ deleteMyAccountUpdate(p)

SpecRegister == Init /\ [][NextRegister]_vars

\* ---------------------------------------------------------------- Authz
\* Authorization: an administrator and a customer exist; each logs in, logs
\* out, deletes their own account and calls the administrator routes with
\* the tokens they hold (or forged ones), while the administrator routes
\* suspend, activate, delete and change the role of either account.
ClientRow == NewUser(2, "b@x.com", "+15550000002", hashPassword("Password1"), "CUSTOMER", FALSE)

InitAuthz ==
  /\ users = <<AdminRow, ClientRow>>
  /\ emailVerification = {}
  /\ otpSeq = 0
  /\ now = 0
  /\ ticks = 0
  /\ procs = [p \in Procs |-> Idle]
  /\ last = NoAnswer
  /\ wallet = {}
  /\ mailbox = << >>
  /\ auditLog = {}
  /\ spent = {}
  /\ revision = "table"
  /\ resetMails = << >>
  /\ sellers = {}
  /\ applications = << >>
  /\ shops = << >>
  /\ shopReviews = << >>
  /\ tk = [claims |-> NoClaims, token |-> NoToken, kind |-> "", out |-> Thrown(0, NoToken), via |-> ""]

AuthzRoles == {"CUSTOMER", "ADMIN"}
AuthzTokens == {NoToken} \cup AccessHeld \cup RefreshHeld \cup {Tamper(t) : t \in AccessHeld}

NextAuthz ==
  \/ \E d \in TokenTicks : Tick(d)
  \/ \E w \in wallet : Discard(w)
  \/ \E p \in ClientSlots :
       \/ loginFind(p, ClientRow.email, "Password1")
       \/ loginRespond(p)
       \/ \E t \in AuthzTokens : logout(p, t)
       \/ \E t \in LiveAccess : deleteMyAccountFind(p, t)
       \/ deleteMyAccountAudit(p)
       \/ deleteMyAccountUpdate(p)
       \/ \E t \in AuthzTokens : suspendUserFind(p, t, ClientRow.id)
       \/ suspendUserUpdate(p)
       \/ suspendUserAudit(p)
  \/ \E p \in AdminSlots :
       \/ suspendUserFind(p, AdminToken, ClientRow.id)
       \/ suspendUserUpdate(p)
       \/ suspendUserAudit(p)
       \/ deleteUserFind(p, AdminToken, ClientRow.id)
       \/ deleteUserUpdate(p)
       \/ \E r \in AuthzRoles : updateUserFind(p, AdminToken, ClientRow.id, r, "")
       \/ updateUserUpdate(p)

SpecAuthz == InitAuthz /\ [][NextAuthz]_vars

\* ---------------------------------------------------------------- Token
\* The token functions of auth.utils on their own: a claim set is drawn, a
\* token of either kind is generated from it, time passes, and the token is
\* handed to verifyAccessToken or to verifyRefreshToken.
ClaimSets == [userId : 1 .. MaxUsers, email : Emails, role : Roles]
TokenKinds == {"access", "refresh"}
NoOutcome == Thrown(0, NoToken)

InitToken ==
  /\ users = << >>
  /\ emailVerification = {}
  /\ otpSeq = 0
  /\ now = 0
  /\ ticks = 0
  /\ procs = [p \in Procs |-> Idle]
  /\ last = NoAnswer
  /\ wallet = {}
  /\ mailbox = << >>
  /\ auditLog = {}
  /\ spent = {}
  /\ revision = "table"
  /\ resetMails = << >>
  /\ sellers = {}
  /\ applications = << >>
  /\ shops = << >>
  /\ shopReviews = << >>
  /\ \E c \in ClaimSets :
       tk = [claims |-> c, token |-> NoToken, kind |-> "", out |-> NoOutcome, via |-> ""]

tkGenerate(kind) ==
  /\ tk.token = NoToken
  /\ tk' = [tk EXCEPT !.kind = kind,
                      !.token = IF kind = "access"
                                  THEN generateAccessToken(tk.claims, now)
                                  ELSE generateRefreshToken(tk.claims, now)]
  /\ UNCHANGED <<users, emailVerification, otpSeq, now, ticks, procs, last, wallet,
                 mailbox, auditLog, spent, revision, resetMails, sellers, applications, shops, shopReviews>>

tkVerify(via) ==
  /\ tk.token # NoToken
  /\ tk' = [tk EXCEPT !.via = via,
                      !.out = IF via = "access"
                                THEN verifyAccessToken(tk.token, now)
                                ELSE verifyRefreshToken(tk.token, now)]
  /\ UNCHANGED <<users, emailVerification, otpSeq, now, ticks, procs, last, wallet,
                 mailbox, auditLog, spent, revision, resetMails, sellers, applications, shops, shopReviews>>

KindTicks == {ACCESS_TOKEN_EXPIRY, REFRESH_TOKEN_EXPIRY - ACCESS_TOKEN_EXPIRY}

NextToken ==
  \/ \E d \in KindTicks : Tick(d)
  \/ \E k \in TokenKinds : tkGenerate(k)
  \/ \E v \in TokenKinds : tkVerify(v)

SpecToken == InitToken /\ [][NextToken]_vars

\* ------------------------------------------------------------------ OTP
\* Email verification: two registered, unverified accounts ask for codes and
\* submit codes, under either revision of the OTP store, while the clock
\* passes the expiry of one revision or of both.
OtpRows ==
  <<NewUser(1, "a@x.com", "+15550000001", hashPassword("Password1"), "CUSTOMER", FALSE),
    NewUser(2, "b@x.com", "+15550000002", hashPassword("Password1"), "CUSTOMER", FALSE)>>
Revisions == {"table", "fields"}

InitOTP ==
  /\ users = OtpRows
  /\ emailVerification = {}
  /\ otpSeq = 0
  /\ now = 0
  /\ ticks = 0
  /\ procs = [p \in Procs |-> Idle]
  /\ last = NoAnswer
  /\ wallet = {}
  /\ mailbox = << >>
  /\ auditLog = {}
  /\ spent = {}
  /\ revision \in Revisions
  /\ resetMails = << >>
  /\ sellers = {}
  /\ applications = << >>
  /\ shops = << >>
  /\ shopReviews = << >>
  /\ tk = [claims |-> NoClaims, token |-> NoToken, kind |-> "", out |-> NoOutcome, via |-> ""]

OtpTicks == {TableExpiry + 1, FieldsExpiry + 1}
OtpCodes == {"123456", "999998"}
SentCodes == OtpCodes \cup {Padded("123456")}

OtpSteps(p, emails) ==
  \/ \E e \in emails : resendVerificationCodeFind(p, e)
  \/ \E c \in OtpCodes : createOrUpdateOTPDeleteMany(p, c)
  \/ createOrUpdateOTPCreate(p)
  \/ \E c \in OtpCodes : createOrUpdateOTPFind(p, c)
  \/ createOrUpdateOTPUpdate(p)
  \/ resendVerificationCodeMail(p)
  \/ \E e \in emails, c \in SentCodes : verifyOTPFindFirst(p, e, c)
  \/ verifyOTPDeleteExpired(p)
  \/ verifyOTPDelete(p)
  \/ \E e \in emails, c \in SentCodes : verifyOTPFindUnique(p, e, c)
  \/ verifyOTPClear(p)
  \/ verifyEmailFind(p)
  \/ verifyEmailUpdate(p)
  \/ deleteOTPDeleteMany(p)
  \/ deleteOTPFind(p)
  \/ deleteOTPUpdate(p)

\* requests one at a time
NextOTPSeq ==
  \/ \E d \in OtpTicks : Tick(d)
  \/ \E p \in ClientSlots : OtpSteps(p, Emails \cup {"nobody@x.com"})

SpecOTPSeq == InitOTP /\ [][NextOTPSeq]_vars

\* two requests in flight, for one email
NextOTP ==
  \/ \E d \in OtpTicks : Tick(d)
  \/ \E p \in Procs : OtpSteps(p, ProfileEmails)

SpecOTP == InitOTP /\ [][NextOTP]_vars

\* ======================================================== Session claims

\* C2: login, refresh and googleCallback issue no token pair for an existing
\* account whose status, as the handler read it, is not ACTIVE: the request
\* fails (401 or 403) and carries no tokens.
C2_NoTokensForInactive ==
  (/\ last.op \in {"login", "refresh", "googleCallback"}
   /\ last.found
   /\ last.user.status # "ACTIVE")
  => (last.tokens = NoTokens /\ last.status \in {401, 403})

\* reached: googleCallback for an existing SUSPENDED account is refused
C2_Witness ==
  /\ last.op = "googleCallback"
  /\ last.found
  /\ last.user.status = "SUSPENDED"
  /\ last.status = 403
  /\ last.tokens = NoTokens

C4_RefreshFollowsStatus ==
  (last.op = "refresh" /\ verifyRefreshToken(last.req.token, last.at).ok) =>
    LET id == last.req.token.payload.userId
        active == id \in Ids /\ users[id].status = "ACTIVE"
    IN /\ last.status = 200 <=> active
       /\ ~active => last.status = 401

\* reached: a refresh succeeds for an account that was activated again by
\* the administrator (its USER_ACTIVATED audit row is written)
C4_Witness ==
  /\ last.op = "refresh"
  /\ last.status = 200
  /\ [userId |-> last.user.id, action |-> "USER_SUSPENDED"] \in auditLog
  /\ [userId |-> last.user.id, action |-> "USER_ACTIVATED"] \in auditLog

\* C5: a refresh changes no stored state, and a refresh token that a refresh
\* has accepted before is accepted again while it is unexpired and the
\* account is ACTIVE.
C5_ReuseInv ==
  (/\ last.op = "refresh"
   /\ last.reused
   /\ verifyRefreshToken(last.req.token, last.at).ok
   /\ RowOf(last.req.token).status = "ACTIVE")
  => (last.status = 200 /\ last.tokens # NoTokens)

C5_RefreshFrame ==
  (last'.op = "refresh" /\ last' # last) =>
    /\ users' = users
    /\ emailVerification' = emailVerification
    /\ auditLog' = auditLog

C5_RefreshNotRotated == [](C5_ReuseInv) /\ [][C5_RefreshFrame]_vars

\* reached: the same refresh token is accepted a second time
C5_Witness ==
  /\ last.op = "refresh"
  /\ last.reused
  /\ last.status = 200

\* C7: the claims {userId, email, role} of both tokens of every issued pair
\* are the id, email and role of the account row the handler read (or
\* created); refresh takes them from the row, not from the presented token.
C7_ClaimsFromRow ==
  last.tokens # NoTokens =>
    /\ last.op \in {"register", "login", "refresh", "googleCallback"}
    /\ \A t \in {last.tokens.accessToken, last.tokens.refreshToken} :
         /\ t.payload.userId = last.user.id
         /\ t.payload.email = last.user.email
         /\ t.payload.role = last.user.role
    /\ verifyAccessToken(last.tokens.accessToken, last.at).ok
    /\ verifyRefreshToken(last.tokens.refreshToken, last.at).ok

\* reached: a refresh issues a role claim that differs from the role claim of
\* the refresh token presented (the stored role changed in between)
C7_Witness ==
  /\ last.op = "refresh"
  /\ last.status = 200
  /\ last.tokens.accessToken.payload.role # last.req.token.payload.role
  /\ last.tokens.accessToken.payload.role = last.user.role

\* ======================================================= Register claims

\* C1: a register called with an email some account row holds, or with a
\* phone some account row holds, is answered 409 at once: it creates no
\* account, issues no tokens, and does not go on to its create.
C1_Conflict(email, phone) ==
  \E i \in Ids : users[i].email = email \/ users[i].phone = phone

C1_Step ==
  \A e \in Emails, ph \in Phones :
    C1_Conflict(e, ph) =>
      /\ ~\E p \in Procs :
            /\ procs[p].pc = "idle"
            /\ procs'[p].pc = "reg_create"
            /\ procs'[p].req.email = e
            /\ procs'[p].req.phone = ph
      /\ (/\ procs' = procs
          /\ last' # last
          /\ last'.op = "register"
          /\ last'.req.email = e
          /\ last'.req.phone = ph)
         => (/\ last'.status = 409
             /\ last'.tokens = NoTokens
             /\ users' = users
             /\ wallet' = wallet)

C1_RegisterConflict == [][C1_Step]_vars

\* reached: a register with a fresh email but the phone of an existing
\* account is refused with 409
C1_Witness ==
  /\ last.op = "register"
  /\ last.status = 409
  /\ \E i \in Ids : users[i].phone = last.req.phone
  /\ \A i \in Ids : users[i].email # last.req.email

\* ========================================================== Authz claims

\* C6: a request to a route behind authenticate (and authorize) is let
\* through exactly when the presented access token verifies at that moment
\* and, on an administrator route, carries the role claim ADMIN; it is
\* answered 401 or 403 otherwise, whatever the stored account says. A
\* request let through is never answered 401 or 403 later, and logout
\* changes nothing the server stores.
C6_AdminOps == {"suspendUser", "activateUser", "deleteUser", "updateUser"}
C6_GuardedOps == C6_AdminOps \cup {"logout", "deleteMyAccount"}
C6_TokenVerdict(op, token) ==
  IF ~(token # NoToken /\ token.sig = [key |-> JWT_SECRET, over |-> token.payload]
                        /\ now < token.payload.exp) THEN 401
  ELSE IF op \in C6_AdminOps /\ token.payload.role # "ADMIN" THEN 403
  ELSE 200

C6_Step ==
  /\ \A p \in Procs :
       /\ (procs[p].pc = "idle" /\ procs'[p].pc # "idle" /\ procs'[p].op \in C6_GuardedOps)
            => C6_TokenVerdict(procs'[p].op, procs'[p].req.token) = 200
       /\ (procs[p].pc # "idle" /\ procs'[p].pc = "idle" /\ procs[p].op \in C6_GuardedOps)
            => last'.status \notin {401, 403}
  /\ (procs' = procs /\ last' # last /\ last'.op \in C6_GuardedOps) =>
       LET v == C6_TokenVerdict(last'.op, last'.req.token)
       IN /\ v # 200 => last'.status = v
          /\ v = 200 => last'.status \notin {401, 403}
          /\ last'.op = "logout" =>
               /\ last'.status = v
               /\ UNCHANGED <<users, emailVerification, auditLog, mailbox>>

C6_TokenOnly == [][C6_Step]_vars

\* reached: a logout accepted with a token whose account has since been
\* suspended and given another role than the token claims
C6_Witness ==
  /\ last.op = "logout"
  /\ last.status = 200
  /\ last.authRow.status = "SUSPENDED"
  /\ last.authRow.role # last.req.token.payload.role

\* ========================================================== Token claims

\* C8: verifyAccessToken of a token generateAccessToken made from a claim
\* set, before the token expires, returns that claim set (userId, email,
\* role); verifyAccessToken throws 401 for every token generateRefreshToken
\* made, and verifyRefreshToken throws 401 for every token
\* generateAccessToken made.
C8_ClaimsOf(payload) ==
  [userId |-> payload.userId, email |-> payload.email, role |-> payload.role]

C9_StoredCodes(email) ==
  Cardinality({r \in emailVerification : r.email = email})
    + (IF findByEmail(email).emailVerificationCode # NULL THEN 1 ELSE 0)

C9_AtMostOneCode == \A e \in Emails : C9_StoredCodes(e) <= 1

\* C10: with requests handled one at a time, once createOrUpdateOTP has
\* returned a new code for an email, verifyOTP returns true for that email
\* only for the code issued last; an earlier, different code gets false.
C10_Latest(email) ==
  LET idx == {i \in 1 .. Len(mailbox) : mailbox[i].email = email}
  IN mailbox[CHOOSE i \in idx : \A k \in idx : k <= i]

C10_OldCodeFails ==
  (/\ last.op = "verifyEmail"
   /\ \E i \in 1 .. Len(mailbox) : mailbox[i].email = last.req.email)
  => (/\ last.found => Trim(last.req.code) = C10_Latest(last.req.email).code
      /\ Trim(last.req.code) # C10_Latest(last.req.email).code => last.status = 400)

\* reached: a code that was issued for the email, and was then replaced by
\* a different one before it expired, is refused
C10_Witness ==
  /\ last.op = "verifyEmail"
  /\ last.status = 400
  /\ ~last.found
  /\ \E i \in 1 .. Len(mailbox) :
       /\ mailbox[i].email = last.req.email
       /\ mailbox[i].code = last.req.code
  /\ C10_Latest(last.req.email).code # last.req.code
  /\ now = 0

\* ======================================================= verifyOTP claims

\* the codes stored for an email that verifyOTP takes as equal to the
\* presented code: rows of EmailVerification with that code, or the code
\* column of the account when it is the same after trimming
C11_Stored(email) ==
  IF revision = "table"
    THEN {[code |-> r.code, expiresAt |-> r.expiresAt] :
            r \in {x \in emailVerification : x.email = email}}
    ELSE IF findByEmail(email) # NoUser
            /\ findByEmail(email).emailVerificationCode # NULL
            /\ findByEmail(email).emailVerificationExpires # NoDate
      THEN {[code |-> findByEmail(email).emailVerificationCode,
             expiresAt |-> findByEmail(email).emailVerificationExpires]}
      ELSE {}

C11_Matching(email, code) ==
  {r \in C11_Stored(email) :
     IF revision = "table" THEN r.code = code ELSE r.code = Trim(code)}

\* C11: with requests handled one at a time, verifyOTP returns false
\* (verifyEmail answers 400) when no code is stored for the email or the
\* stored code differs from the presented one, and then nothing stored
\* changes; when the matching code has expired it returns false as well,
\* and the code is no longer stored afterwards.
C11_Step ==
  /\ (/\ procs' = procs
      /\ last' # last
      /\ last'.op = "verifyEmail")
     => (/\ C11_Matching(last'.req.email, last'.req.code) = {}
         /\ last'.status = 400
         /\ ~last'.found
         /\ UNCHANGED <<users, emailVerification>>)
  /\ \A p \in Procs :
       /\ (procs[p].pc = "idle" /\ procs'[p].op = "verifyEmail") =>
            LET m == C11_Matching(procs'[p].req.email, procs'[p].req.code)
            IN /\ m # {}
               /\ UNCHANGED <<users, emailVerification>>
               /\ (\A r \in m : now > r.expiresAt)
                    <=> procs'[p].pc \in {"votp_expired", "votpf_clear"}
       /\ (procs[p].pc \in {"votp_expired", "votpf_clear"} /\ procs'[p].pc = "idle") =>
            /\ last'.op = "verifyEmail"
            /\ last'.status = 400
            /\ ~last'.found
            /\ (C11_Matching(last.req.email, last.req.code))' = {}

C11_VerifyOTPFalse == [][C11_Step]_vars

\* reached: the code issued last for an unverified account was presented
\* after its expiry, refused, and is no longer stored
C11_Witness ==
  /\ last.op = "verifyEmail"
  /\ last.status = 400
  /\ ~last.found
  /\ \E i \in 1 .. Len(mailbox) : mailbox[i].email = last.req.email
  /\ C10_Latest(last.req.email).code = last.req.code
  /\ ~findByEmail(last.req.email).emailVerified
  /\ C11_Stored(last.req.email) = {}

\* ===================================================== verifyEmail claims

\* requests that verifyOTP has returned true to
C12_Passed == {"ve_find", "ve_update", "ve_delete", "ve_clear"}

\* C12: two verifyEmail requests with the same email and the same live code
\* can both be accepted. In the revision that keeps the code in the account
\* row, a verifyOTP that returns true writes nothing, so the code stays
\* stored for a second request; and a request that verifyOTP returned true
\* to and that found its account is always answered 200.
C12_Step ==
  \A p \in Procs :
    /\ (/\ revision = "fields"
        /\ procs[p].pc = "idle"
        /\ procs'[p].pc = "ve_find")
       => UNCHANGED <<users, emailVerification>>
    /\ (/\ procs[p].pc \in {"ve_update", "ve_delete", "ve_clear"}
        /\ procs'[p].pc = "idle")
       => (last'.op = "verifyEmail" /\ last'.found /\ last'.status = 200)

C12_BothAccepted == [][C12_Step]_vars

\* reached: only one code was ever issued, one request carrying it has been
\* answered 200, and another request carrying it has passed verifyOTP too
\* and is on its way to its 200
C12_Witness ==
  /\ Len(mailbox) = 1
  /\ OtpInFlight = 0
  /\ last.op = "verifyEmail"
  /\ last.status = 200
  /\ last.req.email = mailbox[1].email
  /\ Trim(last.req.code) = mailbox[1].code
  /\ \E p \in Procs :
       /\ procs[p].op = "verifyEmail"
       /\ procs[p].pc \in {"ve_update", "ve_delete", "ve_clear"}
       /\ procs[p].req.email = last.req.email
       /\ procs[p].req.code = last.req.code

\* C13: with requests handled one at a time, a verifyEmail answered 200
\* leaves the account verified and no code stored for its email; a
\* verifyEmail for an email whose account is already verified is answered
\* 400 at once, the code that verified it included; and a verifyEmail
\* answered 400 changes no account's emailVerified.
C13_AfterSuccess ==
  (last.op = "verifyEmail" /\ last.status = 200) =>
    /\ findByEmail(last.req.email).emailVerified
    /\ C11_Stored(last.req.email) = {}

C13_Step ==
  /\ \A p \in Procs, e \in Emails :
       (/\ findByEmail(e).emailVerified
        /\ procs[p].pc = "idle"
        /\ procs'[p].op = "verifyEmail")
       => procs'[p].req.email # e
  /\ (/\ procs' = procs
      /\ last' # last
      /\ last'.op = "verifyEmail"
      /\ findByEmail(last'.req.email).emailVerified)
     => last'.status = 400
  /\ (last' # last /\ last'.op = "verifyEmail" /\ last'.status = 400) =>
       /\ Len(users') = Len(users)
       /\ \A i \in Ids : users'[i].emailVerified = users[i].emailVerified

C13_VerifiedOnce == [](C13_AfterSuccess) /\ [][C13_Step]_vars

\* reached: the code that verified the account, still unexpired, is
\* presented again and refused
C13_Witness ==
  /\ last.op = "verifyEmail"
  /\ last.status = 400
  /\ now = 0
  /\ findByEmail(last.req.email).emailVerified
  /\ \E i \in 1 .. Len(mailbox) : mailbox[i].email = last.req.email
  /\ C10_Latest(last.req.email).code = last.req.code

\* ------------------------------------------------------- password reset
\* passwordResetConfig.expiryMinutes: about one hour, in seconds
ResetExpiry == 60 * 60

\* forgotPassword requests that have drawn a token so far
ResetsStarted ==
  Len(resetMails) + Cardinality({p \in Procs : procs[p].pc \in {"fp_update", "fp_mail"}})

\* crypto.randomBytes(..).toString('hex'): a token no earlier call returned
generateResetToken == "r" \o ToString(ResetsStarted + 1)
\* sha256 of the raw token, in hex
hashResetToken(token) == "sha256:" \o token
getResetTokenExpiry(t) == t + ResetExpiry

\* the two places forgotPassword builds its 200 body
forgotPasswordNoAccount == "If an account exists, a reset link will be sent"
forgotPasswordSentRevealing == "A reset link was sent to your address"
forgotPasswordSent == "If an account exists, a reset link will be sent"

\* the email check and findUnique({where: {email}}); without a row the
\* generic 200 at once, otherwise the token, its hash and its expiry are
\* made and the handler awaits the update
forgotPasswordFind(p, email) ==
  LET req == [NoReq EXCEPT !.email = email]
      user == findByEmail(email)
  IN /\ Free(p)
     /\ IF email = ""
          THEN AnswerMessage(p, "forgotPassword", req, NoUser, FALSE, NoUser, 400,
                             NoTokens, "Email is required")
          ELSE IF user = NoUser
            THEN AnswerMessage(p, "forgotPassword", req, NoUser, FALSE, NoUser, 200,
                               NoTokens, forgotPasswordNoAccount)
            ELSE /\ ResetsStarted < MaxResets
                 /\ AwaitOtp(p, "forgotPassword", "fp_update", req, user,
                             [id |-> user.id, email |-> email,
                              code |-> generateResetToken,
                              expiresAt |-> getResetTokenExpiry(now)])
     /\ UNCHANGED <<users, emailVerification, otpSeq, now, ticks, wallet, mailbox, auditLog, spent, tk, revision, resetMails, sellers, applications, shops, shopReviews>>

forgotPasswordUpdateKeeping(p) ==
  LET s == procs[p]
  IN /\ s.pc = "fp_update"
     /\ users' = [users EXCEPT ![s.user.id] =
                    IF @.resetPasswordToken # NULL THEN @
                    ELSE [@ EXCEPT !.resetPasswordToken = hashResetToken(s.otp.code),
                                   !.resetPasswordExpires = s.otp.expiresAt]]
     /\ AwaitOtp(p, s.op, "fp_mail", s.req, s.user, s.otp)
     /\ UNCHANGED <<emailVerification, otpSeq, now, ticks, wallet, mailbox, auditLog, spent, tk, revision, resetMails, sellers, applications, shops, shopReviews>>
\* prisma.user.update({where: {id}, data: {resetPasswordToken,
\* resetPasswordExpires}}): the hash and the expiry overwrite what the row held
forgotPasswordUpdate(p) ==
  LET s == procs[p]
  IN /\ s.pc = "fp_update"
     /\ users' = [users EXCEPT ![s.user.id] =
                    [@ EXCEPT !.resetPasswordToken = hashResetToken(s.otp.code),
                              !.resetPasswordExpires = s.otp.expiresAt]]
     /\ AwaitOtp(p, s.op, "fp_mail", s.req, s.user, s.otp)
     /\ UNCHANGED <<emailVerification, otpSeq, now, ticks, wallet, mailbox, auditLog, spent, tk, revision, resetMails, sellers, applications, shops, shopReviews>>

forgotPasswordMailSurfacing(p, delivered) ==
  LET s == procs[p]
  IN /\ s.pc = "fp_mail"
     /\ resetMails' = Append(resetMails, [email |-> s.req.email, token |-> s.otp.code,
                                          delivered |-> delivered])
     /\ IF delivered
          THEN AnswerMessage(p, s.op, s.req, s.user, TRUE, NoUser, 200, NoTokens,
                             forgotPasswordSent)
          ELSE AnswerMessage(p, s.op, s.req, s.user, TRUE, NoUser, 500, NoTokens,
                             "Internal server error")
     /\ UNCHANGED <<users, emailVerification, otpSeq, now, ticks, wallet, mailbox, auditLog, spent, tk, revision, sellers, applications, shops, shopReviews>>
\* sendPasswordResetEmail(email, resetUrl, 1) carries the raw token in the
\* link; transporter.sendMail delivers it or throws, which the function
\* catches and turns into the boolean the handler ignores; then the generic 200
forgotPasswordMail(p, delivered) ==
  LET s == procs[p]
  IN /\ s.pc = "fp_mail"
     /\ resetMails' = Append(resetMails, [email |-> s.req.email, token |-> s.otp.code,
                                          delivered |-> delivered])
     /\ AnswerMessage(p, s.op, s.req, s.user, TRUE, NoUser, 200, NoTokens,
                      forgotPasswordSent)
     /\ UNCHANGED <<users, emailVerification, otpSeq, now, ticks, wallet, mailbox, auditLog, spent, tk, revision, sellers, applications, shops, shopReviews>>

resetPasswordMatchesAnyAge(token, t) ==
  {i \in Ids : users[i].resetPasswordToken = hashResetToken(token)}
\* findFirst({where: {resetPasswordToken: hashedToken,
\* resetPasswordExpires: {gt: new Date()}}}): the rows it can return
resetPasswordMatches(token, t) ==
  {i \in Ids : /\ users[i].resetPasswordToken = hashResetToken(token)
               /\ users[i].resetPasswordExpires # NoDate
               /\ users[i].resetPasswordExpires > t}

\* the presence check and findFirst; without a row the 400, otherwise the
\* handler awaits hashPassword and then the update
resetPasswordFind(p, token, newPassword) ==
  LET req == [NoReq EXCEPT !.resetToken = token, !.newPassword = newPassword]
  IN /\ Free(p)
     /\ IF token = "" \/ newPassword = ""
          THEN AnswerMessage(p, "resetPassword", req, NoUser, FALSE, NoUser, 400,
                             NoTokens, "Token and new password are required")
          ELSE IF resetPasswordMatches(token, now) = {}
            THEN AnswerMessage(p, "resetPassword", req, NoUser, FALSE, NoUser, 400,
                               NoTokens, "Invalid or expired reset token")
            ELSE \E i \in resetPasswordMatches(token, now) :
                   Await(p, "resetPassword", "rp_update", req, users[i])
     /\ UNCHANGED <<users, emailVerification, otpSeq, now, ticks, wallet, mailbox, auditLog, spent, tk, revision, resetMails, sellers, applications, shops, shopReviews>>

resetPasswordUpdateKeepingToken(p) ==
  LET s == procs[p]
  IN /\ s.pc = "rp_update"
     /\ users' = [users EXCEPT ![s.user.id] =
                    [@ EXCEPT !.passwordHash = hashPassword(s.req.newPassword)]]
     /\ Await(p, s.op, "rp_mail", s.req, s.user)
     /\ UNCHANGED <<emailVerification, otpSeq, now, ticks, wallet, mailbox, auditLog, spent, tk, revision, resetMails, sellers, applications, shops, shopReviews>>
\* prisma.user.update({where: {id}, data: {passwordHash, resetPasswordToken:
\* null, resetPasswordExpires: null}}), unconditional on what the row holds now
resetPasswordUpdate(p) ==
  LET s == procs[p]
  IN /\ s.pc = "rp_update"
     /\ users' = [users EXCEPT ![s.user.id] =
                    [@ EXCEPT !.passwordHash = hashPassword(s.req.newPassword),
                              !.resetPasswordToken = NULL,
                              !.resetPasswordExpires = NoDate]]
     /\ Await(p, s.op, "rp_mail", s.req, s.user)
     /\ UNCHANGED <<emailVerification, otpSeq, now, ticks, wallet, mailbox, auditLog, spent, tk, revision, resetMails, sellers, applications, shops, shopReviews>>

\* after sendPasswordChangeConfirmationEmail: the 200
resetPasswordRespond(p) ==
  LET s == procs[p]
  IN /\ s.pc = "rp_mail"
     /\ AnswerMessage(p, s.op, s.req, s.user, TRUE, NoUser, 200, NoTokens,
                      "Password has been reset successfully")
     /\ UNCHANGED <<users, emailVerification, otpSeq, now, ticks, wallet, mailbox, auditLog, spent, tk, revision, resetMails, sellers, applications, shops, shopReviews>>

\* Password reset: two accounts with a password ask for reset links, present
\* raw tokens and log in, while the clock reaches or passes the expiry.
InitReset ==
  /\ users = OtpRows
  /\ emailVerification = {}
  /\ otpSeq = 0
  /\ now = 0
  /\ ticks = 0
  /\ procs = [p \in Procs |-> Idle]
  /\ last = NoAnswer
  /\ wallet = {}
  /\ mailbox = << >>
  /\ auditLog = {}
  /\ spent = {}
  /\ revision = "table"
  /\ resetMails = << >>
  /\ sellers = {}
  /\ applications = << >>
  /\ shops = << >>
  /\ shopReviews = << >>
  /\ tk = [claims |-> NoClaims, token |-> NoToken, kind |-> "", out |-> NoOutcome, via |-> ""]

ResetTicks == {ResetExpiry - 1, ResetExpiry, ResetExpiry + 1}
RawTokens == {"r" \o ToString(i) : i \in 0 .. MaxResets}

ResetSteps(p, emails, passwords, deliveries) ==
  \/ \E e \in emails : forgotPasswordFind(p, e)
  \/ forgotPasswordUpdate(p)
  \/ \E d \in deliveries : forgotPasswordMail(p, d)
  \/ \E t \in RawTokens \cup {""}, w \in passwords : resetPasswordFind(p, t, w)
  \/ resetPasswordUpdate(p)
  \/ resetPasswordRespond(p)

\* requests one at a time, with logins
NextResetSeq ==
  \/ \E d \in ResetTicks : Tick(d)
  \/ \E p \in ClientSlots : ResetSteps(p, Emails \cup {"", "nobody@x.com"}, {"", "Password2"}, BOOLEAN)
  \/ \E p \in ClientSlots, e \in Emails, w \in Passwords : loginFind(p, e, w)
  \/ \E p \in ClientSlots : loginRespond(p)

SpecResetSeq == InitReset /\ [][NextResetSeq]_vars

\* two requests in flight, for one account
NextReset ==
  \/ \E d \in ResetTicks : Tick(d)
  \/ \E p \in Procs : ResetSteps(p, ProfileEmails, Passwords, {TRUE})

SpecReset == InitReset /\ [][NextReset]_vars

\* the raw tokens mailed for an account so far, and the one mailed last
C14_Mailed(email) == {i \in 1 .. Len(resetMails) : resetMails[i].email = email}
C14_Latest(email) ==
  resetMails[CHOOSE i \in C14_Mailed(email) : \A j \in C14_Mailed(email) : j <= i].token
C14_Superseded(token) ==
  \E i \in 1 .. Len(resetMails) :
    /\ resetMails[i].token = token
    /\ C14_Latest(resetMails[i].email) # token

C14_OneToken ==
  (\A p \in ClientSlots : procs[p].pc = "idle") =>
    \A i \in Ids :
      users[i].resetPasswordToken # NULL =>
        /\ C14_Mailed(users[i].email) # {}
        /\ users[i].resetPasswordToken = hashResetToken(C14_Latest(users[i].email))

C14_Step ==
  /\ (/\ procs' = procs
      /\ last' # last
      /\ last'.op = "resetPassword"
      /\ C14_Superseded(last'.req.resetToken))
       => last'.status = 400
  /\ \A p \in ClientSlots :
       (procs[p].pc = "idle" /\ procs'[p].op = "resetPassword") =>
         /\ C14_Mailed(procs'[p].user.email) # {}
         /\ procs'[p].req.resetToken = C14_Latest(procs'[p].user.email)

\* C14: with requests handled one at a time, an account holds at most one
\* live reset token, the hash of the raw token mailed last for it; a
\* resetPassword with a raw token that a later forgotPassword for the same
\* account has superseded is answered 400, and a resetPassword is accepted
\* only with the raw token mailed last for the account.
C14_OnlyLatestToken == [](C14_OneToken) /\ [][C14_Step]_vars

\* the first of two tokens mailed for one account was presented within its
\* hour and answered 400
C14_Witness ==
  /\ last.op = "resetPassword"
  /\ last.status = 400
  /\ now = 0
  /\ \E i, j \in C14_Mailed("a@x.com") :
       i < j /\ resetMails[i].token = last.req.resetToken
  /\ users[1].resetPasswordToken = hashResetToken(C14_Latest("a@x.com"))

\* the raw token is the one stored (hashed) on an account whose expiry has
\* passed / is stored on no account
C15_Expired(token) ==
  \E i \in Ids : /\ users[i].resetPasswordToken = hashResetToken(token)
                 /\ users[i].resetPasswordExpires # NoDate
                 /\ users[i].resetPasswordExpires < now
C15_Unknown(token) ==
  \A i \in Ids : users[i].resetPasswordToken # hashResetToken(token)

C15_Step ==
  /\ \A p \in ClientSlots :
       (procs[p].pc = "idle" /\ procs'[p].op = "resetPassword") =>
         ~C15_Expired(procs'[p].req.resetToken)
  /\ (/\ procs' = procs
      /\ last' # last
      /\ last'.op = "resetPassword"
      /\ last'.req.resetToken # ""
      /\ last'.req.newPassword # ""
      /\ C15_Expired(last'.req.resetToken) \/ C15_Unknown(last'.req.resetToken))
       => /\ last'.status = 400
          /\ last'.message = "Invalid or expired reset token"
          /\ users' = users

\* C15: a resetPassword with the exact raw token of an account, presented
\* after the stored expiry has passed, is answered 400 'Invalid or expired
\* reset token', as a token stored on no account is, and leaves every
\* account row (password hash, stored token and expiry) as it was.
C15_ExpiredTokenRejected == [][C15_Step]_vars

\* the stored token of the first account was presented after its expiry and
\* answered 400, the row still holding it
C15_Witness ==
  /\ last.op = "resetPassword"
  /\ last.status = 400
  /\ last.req.newPassword # ""
  /\ users[1].resetPasswordToken = hashResetToken(last.req.resetToken)
  /\ users[1].resetPasswordExpires < now
  /\ users[1].passwordHash = hashPassword("Password1")

C16_Mailed(token) == \E i \in 1 .. Len(resetMails) : resetMails[i].token = token

\* after the 200 of resetPassword the row holds the hash of newPassword and
\* no reset token
C16_AfterSuccess ==
  (last.op = "resetPassword" /\ last.status = 200) =>
    /\ users[last.user.id].passwordHash = hashPassword(last.req.newPassword)
    /\ users[last.user.id].resetPasswordToken = NULL
    /\ users[last.user.id].resetPasswordExpires = NoDate
    /\ C16_Mailed(last.req.resetToken)
    /\ C15_Unknown(last.req.resetToken)

C16_Step ==
  \* one update writes the hash and clears token and expiry, on that row only
  /\ \A p \in ClientSlots :
       (procs[p].pc = "rp_update" /\ procs'[p].pc = "rp_mail") =>
         users' = [users EXCEPT ![procs[p].user.id] =
                     [@ EXCEPT !.passwordHash = hashPassword(procs[p].req.newPassword),
                               !.resetPasswordToken = NULL,
                               !.resetPasswordExpires = NoDate]]
  \* a used token is never stored again, and is answered 400
  /\ \A t \in RawTokens :
       (C16_Mailed(t) /\ C15_Unknown(t)) => (C15_Unknown(t))'
  /\ (/\ procs' = procs
      /\ last' # last
      /\ last'.op = "resetPassword"
      /\ C16_Mailed(last'.req.resetToken)
      /\ C15_Unknown(last'.req.resetToken))
       => last'.status = 400
  \* login is answered by the hash the row holds now
  /\ \A p \in ClientSlots :
       (procs[p].pc = "login_compare" /\ procs'[p].pc = "idle") =>
         (last'.status = 200) =
           (findByEmail(last'.req.email).passwordHash = hashPassword(last'.req.password))

\* C16: with requests handled one at a time, a resetPassword answered 200
\* has put the hash of newPassword on the account and cleared the stored
\* token hash and expiry in one update; from then on the same raw token is
\* answered 400, and login succeeds exactly with the password whose hash the
\* row holds, so with newPassword and not with the old one.
C16_ResetReplacesPassword == [](C16_AfterSuccess) /\ [][C16_Step]_vars

\* after a reset to Password2, the used token was answered 400 on a second
\* try while the row kept the new hash
C16_Witness ==
  /\ last.op = "resetPassword"
  /\ last.status = 400
  /\ C16_Mailed(last.req.resetToken)
  /\ resetMails[1].token = last.req.resetToken
  /\ Len(resetMails) = 1
  /\ now = 0
  /\ users[1].passwordHash = hashPassword("Password2")
  /\ users[1].resetPasswordToken = NULL

\* after a reset to Password2, login with Password2 was answered 200 /
\* login with Password1 was answered 401
C16_LoginNew ==
  /\ last.op = "login" /\ last.status = 200 /\ last.req.password = "Password2"
C16_LoginOld ==
  /\ last.op = "login" /\ last.status = 401 /\ last.req.password = "Password1"
  /\ findByEmail(last.req.email).passwordHash = hashPassword("Password2")

\* resetPassword requests that passed findFirst with this raw token and
\* have written their password hash
C17_Accepted(token) ==
  {p \in Procs : /\ procs[p].op = "resetPassword"
                 /\ procs[p].pc = "rp_mail"
                 /\ procs[p].req.resetToken = token}

\* C17: of the resetPassword requests in flight with the same raw token, at
\* most one is accepted and changes the password.
C17_SingleUse == \A t \in RawTokens : Cardinality(C17_Accepted(t)) <= 1

C18_Message == "If an account exists, a reset link will be sent"

C18_Step ==
  \* every answer to a request that names an email is the same 200
  /\ (last' # last /\ last'.op = "forgotPassword" /\ last'.req.email # "")
       => /\ last'.status = 200
          /\ last'.message = C18_Message
  \* only a request whose email matches an account goes on to the update
  /\ \A p \in ClientSlots :
       (procs[p].pc = "idle" /\ procs'[p].op = "forgotPassword") =>
         findByEmail(procs'[p].req.email) # NoUser
  \* the request whose email matches no account writes nothing
  /\ (/\ procs' = procs
      /\ last' # last
      /\ last'.op = "forgotPassword"
      /\ last'.req.email # "")
       => /\ findByEmail(last'.req.email) = NoUser
          /\ users' = users
          /\ emailVerification' = emailVerification
          /\ resetMails' = resetMails
          /\ mailbox' = mailbox

\* C18: forgotPassword answers 200 with the same message whether or not
\* the email matches an account, and for an email that matches none it
\* leaves the account rows and the mails sent as they were.
C18_SameAnswer == [][C18_Step]_vars

\* an email that matches no account was answered, after a reset mail was
\* sent for one that does
C18_Witness ==
  /\ last.op = "forgotPassword"
  /\ last.req.email = "nobody@x.com"
  /\ last.status = 200
  /\ last.message = C18_Message
  /\ Len(resetMails) = 1
  /\ users[1].resetPasswordToken = hashResetToken(resetMails[1].token)

\* --------------------------------------------------------------- Google
\* Sign-in with Google: from the empty store, callbacks arrive one at a
\* time with or without the code, the state and the state cookie, for two
\* profile emails; provisioned clients may set their phone.
OAuthStates == {"", "s1", "s2"}

NextGoogle ==
  \/ \E w \in wallet : Discard(w)
  \/ \E p \in ClientSlots :
       \/ \E code \in {"", "code"}, state \in OAuthStates, cookie \in OAuthStates :
            googleCallbackCheck(p, code, state, cookie)
       \/ \E ok \in BOOLEAN, e \in Emails : googleCallbackProfile(p, ok, e)
       \/ googleCallbackCreate(p)
       \/ \E t \in LiveAccess, ph \in Phones : updateMyProfile(p, t, ph)

SpecGoogle == Init /\ [][NextGoogle]_vars

C19_Step ==
  \A p \in ClientSlots :
    (/\ procs[p].op = "googleCallback"
     /\ procs[p].pc = "g_create"
     /\ procs'[p].pc = "idle"
     /\ findByEmail(procs[p].req.email) = NoUser)
      => /\ Len(users') = Len(users) + 1
         /\ \A i \in Ids : users'[i] = users[i]
         /\ users'[Len(users')].email = procs[p].req.email
         /\ users'[Len(users')].emailVerified
         /\ users'[Len(users')].passwordHash = NULL
         /\ users'[Len(users')].role = "CUSTOMER"
         /\ users'[Len(users')].status = "ACTIVE"
         /\ last'.status = 302
         /\ last'.tokens = generateTokenPair(AuthPayloadOf(users'[Len(users')]), now)

\* C19: in every reachable state, a googleCallback with a matching state
\* whose profile email matches no account creates exactly one account, with
\* emailVerified true, no password hash, role CUSTOMER and status ACTIVE,
\* and issues the token pair of that account.
C19_Provisioned == [][C19_Step]_vars

C20_Mismatch(req) == req.code # "" /\ req.state # "" /\ req.state # req.cookie

C20_Step ==
  \* such a request never reaches the code exchange
  /\ \A p \in ClientSlots :
       (procs[p].pc = "idle" /\ procs'[p].op = "googleCallback") =>
         ~C20_Mismatch(procs'[p].req)
  \* it is answered at once, nothing written, nothing issued
  /\ (/\ procs' = procs
      /\ last' # last
      /\ last'.op = "googleCallback"
      /\ C20_Mismatch(last'.req))
       => /\ last'.status = 400
          /\ last'.message = "Invalid state parameter"
          /\ last'.tokens = NoTokens
          /\ users' = users
          /\ wallet' = wallet

\* C20: a googleCallback whose state differs from the state in the
\* google_oauth_state cookie, or that comes without the cookie, is answered
\* 400 'Invalid state parameter' before the code exchange and the profile
\* fetch; no account is created or changed and no tokens are issued.
C20_StateChecked == [][C20_Step]_vars

\* a callback without the cookie was answered 400 while an account
\* provisioned earlier exists unchanged
C20_Witness ==
  /\ last.op = "googleCallback"
  /\ last.status = 400
  /\ last.req.code = "code"
  /\ last.req.state = "s1"
  /\ last.req.cookie = ""
  /\ Len(users) = 1
  /\ users[1].phone = ""

C21_Step ==
  \A i \in Ids : users[i].status = "DELETED" => users'[i].status = "DELETED"

\* C21: DELETED is a terminal status: no step of any operation changes the
\* status of an account that is DELETED to ACTIVE or SUSPENDED.
C21_DeletedTerminal == [][C21_Step]_vars

\* the account a delete request in slot p is about to mark DELETED
C22_Target(p) ==
  IF procs[p].op = "deleteUser" THEN procs[p].req.id ELSE procs[p].user.id

C22_Step ==
  \A p \in Procs :
    (/\ procs[p].pc \in {"delete_update", "delme_update"}
     /\ procs'[p].pc = "idle"
     /\ last'.status = 200)
      => \A i \in Ids :
           /\ users'[i].email # users[C22_Target(p)].email
           /\ users'[i].phone # users[C22_Target(p)].phone

\* C22: after deleteMyAccount or the administrator's deleteUser has marked
\* an account DELETED, no account row holds the email or the phone the
\* account had, so that a register with them is not refused with 409.
C22_IdentifiersFreed == [][C22_Step]_vars

C23_Unique ==
  \A i, j \in Ids :
    i # j => users[i].email # users[j].email /\ users[i].phone # users[j].phone

\* a register request ends without having created its account
C23_Step ==
  \A p \in Procs :
    (/\ procs[p].op = "register"
     /\ procs[p].pc = "reg_create"
     /\ procs'[p].pc = "idle")
      => /\ users' = users
         /\ last'.status = 409

\* C23: when register requests with the same email or the same phone
\* interleave, no two account rows share an email or a phone, and the
\* request that does not create the account is answered 409.
C23_LoserConflict == [](C23_Unique) /\ [][C23_Step]_vars

\* ------------------------------------------------------- changePassword
changePasswordStatusNoCompare(user, currentPassword, newPassword) ==
  IF currentPassword = "" \/ newPassword = "" THEN 400
  ELSE IF user = NoUser THEN 404
  ELSE IF user.passwordHash = NULL THEN 400
  ELSE 200
\* the checks of changePassword on the body and on the row findUnique
\* returned, in the order the code makes them: the status it throws, or 200
changePasswordStatus(user, currentPassword, newPassword) ==
  IF currentPassword = "" \/ newPassword = "" THEN 400
  ELSE IF user = NoUser THEN 404
  ELSE IF user.passwordHash = NULL THEN 400
  ELSE IF ~comparePassword(currentPassword, user.passwordHash) THEN 401
  ELSE 200

\* authenticate, the body check, findUnique({where: {id: userId}}) and
\* comparePassword on the row read; past them the handler awaits
\* hashPassword and then the update
changePasswordFind(p, token, currentPassword, newPassword) ==
  LET req == [NoReq EXCEPT !.token = token, !.password = currentPassword,
                           !.newPassword = newPassword]
      auth == authStatus(token, anyRole, now)
      user == IF auth = 200 THEN findById(token.payload.userId) ELSE NoUser
      st == IF auth # 200 THEN auth
            ELSE changePasswordStatus(user, currentPassword, newPassword)
  IN /\ Free(p)
     /\ IF st # 200
          THEN Answer(p, "changePassword", req, user, user # NoUser, RowOf(token),
                      st, NoTokens)
          ELSE Await(p, "changePassword", "cp_update", req, user)
     /\ UNCHANGED <<users, emailVerification, otpSeq, now, ticks, wallet, mailbox, auditLog, spent, tk, revision, resetMails, sellers, applications, shops, shopReviews>>

\* prisma.user.update({where: {id: userId}, data: {passwordHash}})
changePasswordUpdate(p) ==
  LET s == procs[p]
  IN /\ s.pc = "cp_update"
     /\ users' = [users EXCEPT ![s.user.id].passwordHash = hashPassword(s.req.newPassword)]
     /\ Await(p, s.op, "cp_mail", s.req, s.user)
     /\ UNCHANGED <<emailVerification, otpSeq, now, ticks, wallet, mailbox, auditLog, spent, tk, revision, resetMails, sellers, applications, shops, shopReviews>>

\* after sendPasswordChangeConfirmationEmail: the 200
changePasswordRespond(p) ==
  LET s == procs[p]
  IN /\ s.pc = "cp_mail"
     /\ Answer(p, s.op, s.req, s.user, TRUE, NoUser, 200, NoTokens)
     /\ UNCHANGED <<users, emailVerification, otpSeq, now, ticks, wallet, mailbox, auditLog, spent, tk, revision, resetMails, sellers, applications, shops, shopReviews>>

\* Passwords: an account with a password and an account provisioned by
\* googleCallback (no password hash, phone '') hold access tokens issued at
\* time 0; they change and reset passwords and log in, one request at a time.
PasswordRows ==
  <<NewUser(1, "a@x.com", "+15550000001", hashPassword("Password1"), "CUSTOMER", FALSE),
    NewUser(2, "b@x.com", "", NULL, "CUSTOMER", TRUE)>>

InitPassword ==
  /\ users = PasswordRows
  /\ emailVerification = {}
  /\ otpSeq = 0
  /\ now = 0
  /\ ticks = 0
  /\ procs = [p \in Procs |-> Idle]
  /\ last = NoAnswer
  /\ wallet = {}
  /\ mailbox = << >>
  /\ auditLog = {}
  /\ spent = {}
  /\ revision = "table"
  /\ resetMails = << >>
  /\ sellers = {}
  /\ applications = << >>
  /\ shops = << >>
  /\ shopReviews = << >>
  /\ tk = [claims |-> NoClaims, token |-> NoToken, kind |-> "", out |-> NoOutcome, via |-> ""]

NextPassword ==
  \E p \in ClientSlots :
    \/ \E i \in 1 .. Len(PasswordRows), c \in Passwords, w \in Passwords \cup {""} :
         changePasswordFind(p, generateAccessToken(AuthPayloadOf(PasswordRows[i]), 0), c, w)
    \/ changePasswordUpdate(p)
    \/ changePasswordRespond(p)
    \/ ResetSteps(p, Emails, {"Password2"}, {TRUE})
    \/ \E e \in Emails, w \in Passwords : loginFind(p, e, w)
    \/ loginRespond(p)

SpecPassword == InitPassword /\ [][NextPassword]_vars

\* the row a changePassword request with both passwords and a token that
\* authenticates is about
C24_Row(req) == findById(req.token.payload.userId)
C24_Authenticated(req) ==
  /\ req.password # "" /\ req.newPassword # ""
  /\ authStatus(req.token, anyRole, now) = 200
  /\ C24_Row(req) # NoUser
C24_Refused(req) ==
  \/ C24_Row(req).passwordHash = NULL
  \/ C24_Row(req).passwordHash # hashPassword(req.password)

C24_AfterSuccess ==
  (last.op = "changePassword" /\ last.status = 200) =>
    users[last.user.id].passwordHash = hashPassword(last.req.newPassword)

C24_Step ==
  \* no password hash: 400; wrong current password: 401; nothing written
  /\ (/\ procs' = procs
      /\ last' # last
      /\ last'.op = "changePassword"
      /\ C24_Authenticated(last'.req))
       => /\ C24_Refused(last'.req)
          /\ last'.status = IF C24_Row(last'.req).passwordHash = NULL THEN 400 ELSE 401
          /\ users' = users
  \* only a request with the right current password goes on to the update
  /\ \A p \in ClientSlots :
       (procs[p].pc = "idle" /\ procs'[p].op = "changePassword") =>
         /\ C24_Authenticated(procs'[p].req)
         /\ ~C24_Refused(procs'[p].req)
  \* the update replaces the hash of that row and nothing else
  /\ \A p \in ClientSlots :
       (procs[p].pc = "cp_update" /\ procs'[p].pc = "cp_mail") =>
         users' = [users EXCEPT ![procs[p].req.token.payload.userId].passwordHash =
                                   hashPassword(procs[p].req.newPassword)]
  \* login is answered by the hash the row holds now
  /\ \A p \in ClientSlots :
       (procs[p].pc = "login_compare" /\ procs'[p].pc = "idle") =>
         (last'.status = 200) =
           (/\ findByEmail(last'.req.email).passwordHash # NULL
            /\ findByEmail(last'.req.email).passwordHash = hashPassword(last'.req.password))

\* C24: with requests handled one at a time, changePassword is answered 400
\* when the account has no password hash and 401 when currentPassword does
\* not verify, and writes nothing in both cases; otherwise it replaces the
\* hash by that of newPassword, and login succeeds exactly with the password
\* whose hash the row holds, so with newPassword and not with the old one.
C24_ChangePassword == [](C24_AfterSuccess) /\ [][C24_Step]_vars

\* after a changePassword from Password1 to Password2 and no reset, login
\* with Password1 was answered 401
C24_Witness ==
  /\ last.op = "login"
  /\ last.status = 401
  /\ last.req.email = "a@x.com"
  /\ last.req.password = "Password1"
  /\ users[1].passwordHash = hashPassword("Password2")
  /\ resetMails = << >>
  /\ sellers = {}
  /\ applications = << >>
  /\ shops = << >>
  /\ shopReviews = << >>

C28_Step ==
  /\ \A i \in Ids : users[i].passwordHash = NULL => users'[i].passwordHash = NULL
  /\ (/\ last' # last
      /\ last'.op = "login"
      /\ findByEmail(last'.req.email).passwordHash = NULL)
       => last'.status = 401

\* C28: an account without a password hash keeps none under every sequence
\* of forgotPassword, resetPassword and changePassword, and a login for it
\* is answered 401 whatever the password.
C28_NoPasswordStays == [][C28_Step]_vars

C25_Step ==
  \* a code is stored for an email only while its account exists unverified
  /\ \A e \in Emails \cup {"nobody@x.com"} :
       ~((C11_Stored(e))' \subseteq C11_Stored(e)) =>
         /\ findByEmail(e) # NoUser
         /\ ~findByEmail(e).emailVerified
  \* only a request for such an account goes on to createOrUpdateOTP
  /\ \A p \in ClientSlots :
       (procs[p].pc = "idle" /\ procs'[p].op = "resendVerificationCode") =>
         /\ findByEmail(procs'[p].req.email) # NoUser
         /\ ~findByEmail(procs'[p].req.email).emailVerified
  \* no account or a verified account: 200, and nothing stored or mailed
  /\ (/\ procs' = procs
      /\ last' # last
      /\ last'.op = "resendVerificationCode"
      /\ last'.req.email # "")
       => /\ findByEmail(last'.req.email) = NoUser
               \/ findByEmail(last'.req.email).emailVerified
          /\ last'.status = 200
          /\ emailVerification' = emailVerification
          /\ users' = users
          /\ mailbox' = mailbox
  \* the request that went on mails the code it stored and is answered 200
  /\ \A p \in ClientSlots :
       (procs[p].pc = "resend_mail" /\ procs'[p].pc = "idle") =>
         /\ last'.status = 200
         /\ mailbox' = Append(mailbox, [email |-> procs[p].req.email,
                                        code |-> procs[p].otp.code])

C26_Step ==
  \A p \in ClientSlots :
    (/\ procs[p].op = "forgotPassword"
     /\ procs[p].pc = "fp_mail"
     /\ procs'[p].pc = "idle")
      => /\ last'.status = 200
         /\ last'.message = C18_Message
         /\ users' = users
         /\ users[procs[p].user.id].resetPasswordToken = hashResetToken(procs[p].otp.code)
         /\ users[procs[p].user.id].resetPasswordExpires = procs[p].otp.expiresAt

\* C26: with requests handled one at a time, when forgotPassword for an
\* existing account has tried to send the reset mail, delivered or not, the
\* account holds the hash of the token and its expiry and the caller gets
\* the generic 200, never an error.
C26_MailFailureHidden == [][C26_Step]_vars

\* the reset mail was not delivered; the request was answered 200 and the
\* account holds the token
C26_Witness ==
  /\ last.op = "forgotPassword"
  /\ last.status = 200
  /\ Len(resetMails) = 1
  /\ ~resetMails[1].delivered
  /\ resetMails[1].email = last.req.email
  /\ findByEmail(last.req.email).resetPasswordToken = hashResetToken(resetMails[1].token)
  /\ findByEmail(last.req.email).resetPasswordExpires = last.at + ResetExpiry

\* --------------------------------------------------------------- sellers
\* The seller handlers run behind authenticate (and adminOnly for the
\* review); userId below is the userId of the verified token.
\* prisma.seller.findUnique({where: {userId}}) finds a row; it is also what
\* Seller_userId_key refuses on create
sellerExists(userId) == \E s \in sellers : s.userId = userId

\* becomeSeller: findUnique on Seller, 400 for a seller
becomeSellerFind(p, userId) ==
  LET req == [NoReq EXCEPT !.id = userId]
  IN /\ Free(p)
     /\ IF sellerExists(userId)
          THEN AnswerMessage(p, "becomeSeller", req, NoUser, TRUE, NoUser, 400, NoTokens,
                             "You are already a seller")
          ELSE Await(p, "becomeSeller", "bs_create", req, NoUser)
     /\ UNCHANGED <<users, emailVerification, otpSeq, now, ticks, wallet, mailbox, auditLog, spent, tk, revision, resetMails, sellers, applications, shops, shopReviews>>

\* prisma.seller.create with verificationStatus PENDING; a second row for
\* the user is a Prisma error, answered with 500
becomeSellerCreate(p) ==
  LET s == procs[p]
  IN /\ s.pc = "bs_create"
     /\ IF sellerExists(s.req.id)
          THEN /\ sellers' = sellers
               /\ Answer(p, s.op, s.req, NoUser, TRUE, NoUser, 500, NoTokens)
          ELSE /\ sellers' = sellers \cup {[userId |-> s.req.id,
                                           verificationStatus |-> "PENDING",
                                           application |-> 0]}
               /\ Await(p, s.op, "bs_role", s.req, NoUser)
     /\ UNCHANGED <<users, emailVerification, otpSeq, now, ticks, wallet, mailbox, auditLog, spent, tk, revision, resetMails, applications, shops, shopReviews>>

\* prisma.user.update({where: {id: userId}, data: {role: 'SELLER'}}), 200
becomeSellerRole(p) ==
  LET s == procs[p]
  IN /\ s.pc = "bs_role"
     /\ users' = [users EXCEPT ![s.req.id].role = "SELLER"]
     /\ Answer(p, s.op, s.req, NoUser, TRUE, NoUser, 200, NoTokens)
     /\ UNCHANGED <<emailVerification, otpSeq, now, ticks, wallet, mailbox, auditLog, spent, tk, revision, resetMails, sellers, applications, shops, shopReviews>>

\* submitSellerApplication: findUnique on User (404) and on Seller (400)
submitSellerApplicationFind(p, userId) ==
  LET req == [NoReq EXCEPT !.id = userId]
      opening == Cardinality({q \in Procs : procs[q].pc \in {"sa_pending", "sa_create"}})
  IN /\ Free(p)
     /\ IF findById(userId) = NoUser
          THEN AnswerMessage(p, "submitSellerApplication", req, NoUser, FALSE, NoUser, 404,
                             NoTokens, "User not found")
          ELSE IF sellerExists(userId)
            THEN AnswerMessage(p, "submitSellerApplication", req, NoUser, TRUE, NoUser, 400,
                               NoTokens, "You are already a seller")
            ELSE /\ Len(applications) + opening < MaxApplications
                 /\ Await(p, "submitSellerApplication", "sa_pending", req, NoUser)
     /\ UNCHANGED <<users, emailVerification, otpSeq, now, ticks, wallet, mailbox, auditLog, spent, tk, revision, resetMails, sellers, applications, shops, shopReviews>>

\* findFirst({where: {userId, status: {in: ['PENDING', 'UNDER_REVIEW']}}}),
\* 400 for an open application
submitSellerApplicationPending(p) ==
  LET s == procs[p]
      open == \E i \in 1 .. Len(applications) :
                /\ applications[i].userId = s.req.id
                /\ applications[i].status \in {"PENDING", "UNDER_REVIEW"}
  IN /\ s.pc = "sa_pending"
     /\ IF open
          THEN AnswerMessage(p, s.op, s.req, NoUser, TRUE, NoUser, 400, NoTokens,
                             "You already have a pending application")
          ELSE Await(p, s.op, "sa_create", s.req, NoUser)
     /\ UNCHANGED <<users, emailVerification, otpSeq, now, ticks, wallet, mailbox, auditLog, spent, tk, revision, resetMails, sellers, applications, shops, shopReviews>>

\* prisma.sellerApplication.create, status at its default PENDING; 200
submitSellerApplicationCreate(p) ==
  LET s == procs[p]
  IN /\ s.pc = "sa_create"
     /\ applications' = Append(applications, [userId |-> s.req.id, status |-> "PENDING"])
     /\ Answer(p, s.op, s.req, NoUser, TRUE, NoUser, 200, NoTokens)
     /\ UNCHANGED <<users, emailVerification, otpSeq, now, ticks, wallet, mailbox, auditLog, spent, tk, revision, resetMails, sellers, shops, shopReviews>>

reviewSellerApplicationFindAnyStatus(p, id, status) ==
  LET req == [NoReq EXCEPT !.id = id, !.status = status]
  IN /\ Free(p)
     /\ IF id \notin 1 .. Len(applications)
          THEN AnswerMessage(p, "reviewSellerApplication", req, NoUser, FALSE, NoUser, 404,
                             NoTokens, "Application not found")
          ELSE Await(p, "reviewSellerApplication", "rv_update", req, NoUser)
     /\ UNCHANGED <<users, emailVerification, otpSeq, now, ticks, wallet, mailbox, auditLog, spent, tk, revision, resetMails, sellers, applications, shops, shopReviews>>
\* reviewSellerApplication: findUnique on SellerApplication, 404 without a
\* row, 400 unless its status is PENDING or UNDER_REVIEW
reviewSellerApplicationFind(p, id, status) ==
  LET req == [NoReq EXCEPT !.id = id, !.status = status]
  IN /\ Free(p)
     /\ IF id \notin 1 .. Len(applications)
          THEN AnswerMessage(p, "reviewSellerApplication", req, NoUser, FALSE, NoUser, 404,
                             NoTokens, "Application not found")
          ELSE IF applications[id].status \notin {"PENDING", "UNDER_REVIEW"}
            THEN AnswerMessage(p, "reviewSellerApplication", req, NoUser, TRUE, NoUser, 400,
                               NoTokens, "Application has already been reviewed")
            ELSE Await(p, "reviewSellerApplication", "rv_update", req, NoUser)
     /\ UNCHANGED <<users, emailVerification, otpSeq, now, ticks, wallet, mailbox, auditLog, spent, tk, revision, resetMails, sellers, applications, shops, shopReviews>>

\* prisma.sellerApplication.update({where: {id}, data: {status, ..}}),
\* whatever the status is by now; 200 unless the status is APPROVED
reviewSellerApplicationUpdate(p) ==
  LET s == procs[p]
  IN /\ s.pc = "rv_update"
     /\ applications' = [applications EXCEPT ![s.req.id].status = s.req.status]
     /\ IF s.req.status = "APPROVED"
          THEN Await(p, s.op, "rv_seller", s.req, NoUser)
          ELSE Answer(p, s.op, s.req, NoUser, TRUE, NoUser, 200, NoTokens)
     /\ UNCHANGED <<users, emailVerification, otpSeq, now, ticks, wallet, mailbox, auditLog, spent, tk, revision, resetMails, sellers, shops, shopReviews>>

\* prisma.seller.create for application.userId, VERIFIED; a second row for
\* the user is a Prisma error, answered with 500
reviewSellerApplicationSeller(p) ==
  LET s == procs[p]
      userId == applications[s.req.id].userId
  IN /\ s.pc = "rv_seller"
     /\ IF sellerExists(userId)
          THEN /\ sellers' = sellers
               /\ Answer(p, s.op, s.req, NoUser, TRUE, NoUser, 500, NoTokens)
          ELSE /\ sellers' = sellers \cup {[userId |-> userId,
                                           verificationStatus |-> "VERIFIED",
                                           application |-> s.req.id]}
               /\ Await(p, s.op, "rv_role", s.req, NoUser)
     /\ UNCHANGED <<users, emailVerification, otpSeq, now, ticks, wallet, mailbox, auditLog, spent, tk, revision, resetMails, applications, shops, shopReviews>>

\* prisma.user.update({where: {id: application.userId}, data: {role:
\* 'SELLER'}}), 200
reviewSellerApplicationRole(p) ==
  LET s == procs[p]
  IN /\ s.pc = "rv_role"
     /\ users' = [users EXCEPT ![applications[s.req.id].userId].role = "SELLER"]
     /\ Answer(p, s.op, s.req, NoUser, TRUE, NoUser, 200, NoTokens)
     /\ UNCHANGED <<emailVerification, otpSeq, now, ticks, wallet, mailbox, auditLog, spent, tk, revision, resetMails, sellers, applications, shops, shopReviews>>

\* Sellers: an administrator and a customer exist; accounts apply and call
\* becomeSeller, the administrator reviews applications.
SellerSteps(p, userIds) ==
  \/ \E u \in userIds : becomeSellerFind(p, u)
  \/ becomeSellerCreate(p)
  \/ becomeSellerRole(p)
  \/ \E u \in userIds : submitSellerApplicationFind(p, u)
  \/ submitSellerApplicationPending(p)
  \/ submitSellerApplicationCreate(p)
  \/ \E id \in 1 .. MaxApplications, st \in {"APPROVED", "REJECTED"} :
       reviewSellerApplicationFind(p, id, st)
  \/ reviewSellerApplicationUpdate(p)
  \/ reviewSellerApplicationSeller(p)
  \/ reviewSellerApplicationRole(p)

\* requests one at a time / two in flight
NextSellerSeq == \E p \in ClientSlots : SellerSteps(p, {AdminRow.id, ClientRow.id})
SpecSellerSeq == InitAuthz /\ [][NextSellerSeq]_vars

NextSeller == \E p \in Procs : SellerSteps(p, {ClientRow.id})
SpecSeller == InitAuthz /\ [][NextSeller]_vars

C27_Decided(id) ==
  /\ id \in 1 .. Len(applications)
  /\ applications[id].status \in {"APPROVED", "REJECTED"}

C27_Step ==
  \* the status of an application changes only while it is open
  /\ \A i \in 1 .. Len(applications) :
       applications'[i].status # applications[i].status =>
         applications[i].status \in {"PENDING", "UNDER_REVIEW"}
  \* a review of a decided application never reaches the update
  /\ \A p \in ClientSlots :
       (procs[p].pc = "idle" /\ procs'[p].op = "reviewSellerApplication") =>
         ~C27_Decided(procs'[p].req.id)
  \* it is answered 400 and nothing is written
  /\ (/\ procs' = procs
      /\ last' # last
      /\ last'.op = "reviewSellerApplication"
      /\ C27_Decided(last'.req.id))
       => /\ last'.status = 400
          /\ applications' = applications
          /\ sellers' = sellers
          /\ users' = users

\* C27: with requests handled one at a time, reviewSellerApplication changes
\* an application only while its status is PENDING or UNDER_REVIEW; a review
\* of an application that is APPROVED or REJECTED is answered 400 and leaves
\* the applications, the Seller rows and the users unchanged.
C27_DecidedOnce == [][C27_Step]_vars

\* an approval of a rejected application was answered 400; the applicant is
\* no seller
C27_Witness ==
  /\ last.op = "reviewSellerApplication"
  /\ last.status = 400
  /\ last.req.status = "APPROVED"
  /\ C27_Decided(last.req.id)
  /\ applications[last.req.id].status = "REJECTED"
  /\ ~sellerExists(applications[last.req.id].userId)

\* every request has finished
C29_Finished == \A p \in Procs : procs[p].pc = "idle"

\* Seller rows made by a review belong to an APPROVED application
C29_SellerOnlyApproved ==
  \A s \in sellers :
    s.application # 0 => applications[s.application].status = "APPROVED"
\* every APPROVED application has its Seller row and the role SELLER
C29_ApprovedHasSeller ==
  \A i \in 1 .. Len(applications) :
    applications[i].status = "APPROVED" =>
      /\ sellerExists(applications[i].userId)
      /\ users[applications[i].userId].role = "SELLER"
\* a review that has changed the status does not end in an error
C29_Step ==
  \A p \in Procs :
    (/\ procs[p].op = "reviewSellerApplication"
     /\ procs[p].pc \in {"rv_seller", "rv_role"}
     /\ procs'[p].pc = "idle")
      => last'.status = 200

\* C29: when reviewSellerApplication, becomeSeller and
\* submitSellerApplication requests interleave, then once all of them have
\* finished a Seller row made by a review exists only for an application
\* whose status is APPROVED, every APPROVED application has a Seller row for
\* its user with role SELLER, and no review is answered with an error after
\* it changed the status of the application.
C29_ReviewConsistent ==
  [](C29_Finished => C29_SellerOnlyApproved /\ C29_ApprovedHasSeller) /\ [][C29_Step]_vars

\* ---------------------------------------------------------- shop reviews
\* The review handlers run behind authenticate; userId is the userId of the
\* verified token. A slot keeps the locals of the recount (the sum and the
\* number of the ratings findMany returned) with its request.
\* Shop.rating: null, or the quotient sum / count kept as the pair
NoRating == [sum |-> 0, count |-> 0]
NoReview == [userId |-> 0, shopId |-> 0, rating |-> 0]

\* prisma.shopReview.findMany({where: {shopId}})
reviewsOf(shopId) ==
  {i \in 1 .. Len(shopReviews) : shopReviews[i] # NoReview /\ shopReviews[i].shopId = shopId}
RECURSIVE sumRatings(_)
\* reviews.reduce((sum, r) => sum + r.rating, 0)
sumRatings(ids) ==
  IF ids = {} THEN 0
  ELSE LET i == CHOOSE x \in ids : TRUE
       IN shopReviews[i].rating + sumRatings(ids \ {i})

\* addShopReview: findUnique on Shop (404), the status and rating checks (400)
addShopReviewFind(p, userId, id, rating) ==
  LET req == [NoReq EXCEPT !.userId = userId, !.id = id, !.rating = rating]
      creating == Cardinality({q \in Procs : procs[q].pc \in {"ar_existing", "ar_create"}})
  IN /\ Free(p)
     /\ IF id \notin 1 .. Len(shops)
          THEN AnswerMessage(p, "addShopReview", req, NoUser, FALSE, NoUser, 404, NoTokens,
                             "Shop not found")
          ELSE IF shops[id].status # "ACTIVE"
            THEN AnswerMessage(p, "addShopReview", req, NoUser, TRUE, NoUser, 400, NoTokens,
                               "Cannot review inactive shop")
            ELSE IF rating < 1 \/ rating > 5
              THEN AnswerMessage(p, "addShopReview", req, NoUser, TRUE, NoUser, 400,
                                 NoTokens, "Rating must be between 1 and 5")
              ELSE /\ Len(shopReviews) + creating < MaxReviews
                   /\ Await(p, "addShopReview", "ar_existing", req, NoUser)
     /\ UNCHANGED <<users, emailVerification, otpSeq, now, ticks, wallet, mailbox, auditLog, spent, tk, revision, resetMails, sellers, applications, shops, shopReviews>>

\* shopReview.findFirst({where: {userId, shopId}}), 400 for a second review
addShopReviewExisting(p) ==
  LET s == procs[p]
  IN /\ s.pc = "ar_existing"
     /\ IF \E i \in reviewsOf(s.req.id) : shopReviews[i].userId = s.req.userId
          THEN AnswerMessage(p, s.op, s.req, NoUser, TRUE, NoUser, 400, NoTokens,
                             "You have already reviewed this shop")
          ELSE Await(p, s.op, "ar_create", s.req, NoUser)
     /\ UNCHANGED <<users, emailVerification, otpSeq, now, ticks, wallet, mailbox, auditLog, spent, tk, revision, resetMails, sellers, applications, shops, shopReviews>>

\* shopReview.create({data: {userId, shopId, rating}})
addShopReviewCreate(p) ==
  LET s == procs[p]
  IN /\ s.pc = "ar_create"
     /\ shopReviews' = Append(shopReviews, [userId |-> s.req.userId, shopId |-> s.req.id,
                                            rating |-> s.req.rating])
     /\ Await(p, s.op, "sr_recount", s.req, NoUser)
     /\ UNCHANGED <<users, emailVerification, otpSeq, now, ticks, wallet, mailbox, auditLog, spent, tk, revision, resetMails, sellers, applications, shops>>

deleteShopReviewFindCheckingShop(p, userId, id, reviewId) ==
  LET req == [NoReq EXCEPT !.userId = userId, !.id = id, !.reviewId = reviewId]
      found == reviewId \in 1 .. Len(shopReviews) /\ shopReviews[reviewId] # NoReview
  IN /\ Free(p)
     /\ IF ~found \/ shopReviews[reviewId].shopId # id
          THEN AnswerMessage(p, "deleteShopReview", req, NoUser, FALSE, NoUser, 404,
                             NoTokens, "Review not found")
          ELSE IF shopReviews[reviewId].userId # userId
            THEN AnswerMessage(p, "deleteShopReview", req, NoUser, TRUE, NoUser, 403,
                               NoTokens, "Not authorized to delete this review")
            ELSE Await(p, "deleteShopReview", "dr_delete", req, NoUser)
     /\ UNCHANGED <<users, emailVerification, otpSeq, now, ticks, wallet, mailbox, auditLog, spent, tk, revision, resetMails, sellers, applications, shops, shopReviews>>
\* deleteShopReview: shopReview.findUnique({where: {id: reviewId}}), 404
\* without a row, 403 for the review of another user; the shop id of the
\* path is not compared with the review's
deleteShopReviewFind(p, userId, id, reviewId) ==
  LET req == [NoReq EXCEPT !.userId = userId, !.id = id, !.reviewId = reviewId]
      found == reviewId \in 1 .. Len(shopReviews) /\ shopReviews[reviewId] # NoReview
  IN /\ Free(p)
     /\ IF ~found
          THEN AnswerMessage(p, "deleteShopReview", req, NoUser, FALSE, NoUser, 404,
                             NoTokens, "Review not found")
          ELSE IF shopReviews[reviewId].userId # userId
            THEN AnswerMessage(p, "deleteShopReview", req, NoUser, TRUE, NoUser, 403,
                               NoTokens, "Not authorized to delete this review")
            ELSE Await(p, "deleteShopReview", "dr_delete", req, NoUser)
     /\ UNCHANGED <<users, emailVerification, otpSeq, now, ticks, wallet, mailbox, auditLog, spent, tk, revision, resetMails, sellers, applications, shops, shopReviews>>

\* shopReview.delete({where: {id: reviewId}}); a row that is gone by now is a
\* Prisma error, answered with 500
deleteShopReviewDelete(p) ==
  LET s == procs[p]
  IN /\ s.pc = "dr_delete"
     /\ IF shopReviews[s.req.reviewId] = NoReview
          THEN /\ shopReviews' = shopReviews
               /\ Answer(p, s.op, s.req, NoUser, TRUE, NoUser, 500, NoTokens)
          ELSE /\ shopReviews' = [shopReviews EXCEPT ![s.req.reviewId] = NoReview]
               /\ Await(p, s.op, "sr_recount", s.req, NoUser)
     /\ UNCHANGED <<users, emailVerification, otpSeq, now, ticks, wallet, mailbox, auditLog, spent, tk, revision, resetMails, sellers, applications, shops>>

\* both handlers: shopReview.findMany({where: {shopId: id}}) for the shop id
\* of the path, and the sum and the number of the ratings it returned
shopReviewFindMany(p) ==
  LET s == procs[p]
      ids == reviewsOf(s.req.id)
  IN /\ s.pc = "sr_recount"
     /\ Await(p, s.op, "sr_update",
              [s.req EXCEPT !.sum = sumRatings(ids), !.count = Cardinality(ids)], NoUser)
     /\ UNCHANGED <<users, emailVerification, otpSeq, now, ticks, wallet, mailbox, auditLog, spent, tk, revision, resetMails, sellers, applications, shops, shopReviews>>

\* both handlers: shop.update({where: {id}, data: {rating: avgRating,
\* ratingCount: reviews.length}}) and the 200; without a row for the id the
\* update is a Prisma error, answered with 500. addShopReview divides without
\* looking at the length; its shop has a review by then unless one was
\* deleted meanwhile, and 0 / 0 is kept as the pair (0, 0) like null
shopReviewUpdate(p) ==
  LET s == procs[p]
  IN /\ s.pc = "sr_update"
     /\ IF s.req.id \notin 1 .. Len(shops)
          THEN /\ shops' = shops
               /\ Answer(p, s.op, s.req, NoUser, TRUE, NoUser, 500, NoTokens)
          ELSE /\ shops' = [shops EXCEPT ![s.req.id] =
                              [@ EXCEPT !.rating = IF s.req.count > 0
                                                     THEN [sum |-> s.req.sum,
                                                           count |-> s.req.count]
                                                     ELSE NoRating,
                                        !.ratingCount = s.req.count]]
               /\ Answer(p, s.op, s.req, NoUser, TRUE, NoUser, 200, NoTokens)
     /\ UNCHANGED <<users, emailVerification, otpSeq, now, ticks, wallet, mailbox, auditLog, spent, tk, revision, resetMails, sellers, applications, shopReviews>>

\* Shop reviews: two accounts review two active shops without reviews and
\* delete reviews, naming any shop id in the path, one request at a time.
InitShop ==
  /\ users = <<AdminRow, ClientRow>>
  /\ emailVerification = {}
  /\ otpSeq = 0
  /\ now = 0
  /\ ticks = 0
  /\ procs = [p \in Procs |-> Idle]
  /\ last = NoAnswer
  /\ wallet = {}
  /\ mailbox = << >>
  /\ auditLog = {}
  /\ spent = {}
  /\ revision = "table"
  /\ resetMails = << >>
  /\ sellers = {}
  /\ applications = << >>
  /\ shops = <<[status |-> "ACTIVE", rating |-> NoRating, ratingCount |-> 0],
               [status |-> "ACTIVE", rating |-> NoRating, ratingCount |-> 0]>>
  /\ shopReviews = << >>
  /\ tk = [claims |-> NoClaims, token |-> NoToken, kind |-> "", out |-> NoOutcome, via |-> ""]

NextShop ==
  \E p \in ClientSlots :
    \/ \E u \in 1 .. 2, id \in 1 .. 3, r \in {0, 2, 5} : addShopReviewFind(p, u, id, r)
    \/ addShopReviewExisting(p)
    \/ addShopReviewCreate(p)
    \/ \E u \in 1 .. 2, id \in 1 .. 3, r \in 1 .. MaxReviews : deleteShopReviewFind(p, u, id, r)
    \/ deleteShopReviewDelete(p)
    \/ shopReviewFindMany(p)
    \/ shopReviewUpdate(p)

SpecShop == InitShop /\ [][NextShop]_vars

\* the stored rating of the shop is the mean of its reviews' ratings, null
\* when it has none
C30_Mean(id) ==
  IF reviewsOf(id) = {}
    THEN shops[id].rating = NoRating
    ELSE /\ shops[id].rating # NoRating
         /\ shops[id].rating.sum * Cardinality(reviewsOf(id)) =
              sumRatings(reviewsOf(id)) * shops[id].rating.count

\* C30: once every addShopReview and deleteShopReview request has finished,
\* each shop's ratingCount is the number of ShopReview rows of the shop and
\* its rating is the mean of their ratings (null when there are none),
\* whatever shop id the request paths named.
C30_RatingConsistent ==
  (\A p \in Procs : procs[p].pc = "idle") =>
    \A id \in 1 .. Len(shops) :
      /\ shops[id].ratingCount = Cardinality(reviewsOf(id))
      /\ C30_Mean(id)

====
